---- MODULE Spec2Model ----
(***************************************************************************)
(* MaraLyrics: the request-routing and data-access layer.                  *)
(*                                                                         *)
(* State: the relational store (songs, artists, composers,                 *)
(* copyright_owners and the AUTOINCREMENT sequences), the process-local    *)
(* rate-limiter map, the clock, and for every request slot the position    *)
(* of its handler (pc), the request it is handling (req), what is still    *)
(* awaited from the store (pending) and the response (resp).  neverSwept   *)
(* is a history variable: the Map as it would be had no sweep ever         *)
(* removed an entry of the model's pairs.                                  *)
(*                                                                         *)
(* A handler runs without interruption between two awaits; every Gateway   *)
(* call is one SQL statement.  An action is therefore one statement of the *)
(* store together with the synchronous code of the handler around it.      *)
(*                                                                         *)
(* Text is a sequence of one-character strings.  An absent or empty JSON   *)
(* field, both falsy in the handlers, is the empty sequence; SQL NULL in   *)
(* an id column is NULL.                                                   *)
(***************************************************************************)
EXTENDS Integers, Sequences, FiniteSets, TLC

VARIABLES songs, artists, composers, copyright_owners, reports, contacts, seq,
          viewRateMap, viewRateOthers, neverSwept, now, pc, req, pending, resp

vars == <<songs, artists, composers, copyright_owners, reports, contacts, seq,
          viewRateMap, viewRateOthers, neverSwept, now, pc, req, pending,
          resp>>

\* the moderation tables
moderation == <<reports, contacts>>

store == <<songs, artists, composers, copyright_owners, moderation, seq>>

(***************************************************************************)
(* Bounds of the model.                                                    *)
(***************************************************************************)
\* rows ever inserted into one table (AUTOINCREMENT ids 1..MaxId)
MaxId == 2
\* cap of a song's views counter
MaxViews == 4
\* the clock runs up to MaxWindows rate-limit windows
MaxWindows == 1

\* request slots handled concurrently by the runtime
Procs == {"p1", "p2"}
\* the request slots of the view-race scenario
RaceProcs == {"p1", "p2", "p3"}

(***************************************************************************)
(* Text                                                                    *)
(***************************************************************************)
Empty == <<>>

\* String.prototype.toLowerCase, on the letters of the model's alphabet
toLowerCase(s) ==
  [i \in 1..Len(s) |-> CASE s[i] = "A" -> "a"
                         [] s[i] = "B" -> "b"
                         [] OTHER -> s[i]]

\* the regular expression classes \s and \w, on the model's alphabet
IsSpace(c) == c = " "
IsWord(c) == c \in {"a", "b", "c", "x", "A", "B", "0", "1", "_"}

RECURSIVE trimStart(_)
trimStart(s) ==
  IF s /= Empty /\ IsSpace(Head(s)) THEN trimStart(Tail(s)) ELSE s

RECURSIVE trimEnd(_)
trimEnd(s) ==
  IF s /= Empty /\ IsSpace(s[Len(s)])
  THEN trimEnd(SubSeq(s, 1, Len(s) - 1))
  ELSE s

\* String.prototype.trim
trim(s) == trimEnd(trimStart(s))

\* .replace(/[^\w\s-]/g, '')
StripNonWord(s) == SelectSeq(s, LAMBDA c : IsWord(c) \/ IsSpace(c) \/ c = "-")

\* .replace(/[\s_]+/g, '-') : every maximal run of spaces and underscores
\* becomes one hyphen
RECURSIVE SpacesToHyphen(_)
SpacesToHyphen(s) ==
  IF s = Empty THEN Empty
  ELSE IF IsSpace(Head(s)) \/ Head(s) = "_"
       THEN IF Len(s) > 1 /\ (IsSpace(s[2]) \/ s[2] = "_")
            THEN SpacesToHyphen(Tail(s))
            ELSE <<"-">> \o SpacesToHyphen(Tail(s))
       ELSE <<Head(s)>> \o SpacesToHyphen(Tail(s))

\* .replace(/-+/g, '-')
RECURSIVE CollapseHyphens(_)
CollapseHyphens(s) ==
  IF s = Empty THEN Empty
  ELSE IF Head(s) = "-" /\ Len(s) > 1 /\ s[2] = "-"
       THEN CollapseHyphens(Tail(s))
       ELSE <<Head(s)>> \o CollapseHyphens(Tail(s))

\* .replace(/^-|-$/g, '') : one hyphen at the start and one at the end
TrimHyphens(s) ==
  LET a == IF s /= Empty /\ Head(s) = "-" THEN Tail(s) ELSE s
  IN  IF a /= Empty /\ a[Len(a)] = "-" THEN SubSeq(a, 1, Len(a) - 1) ELSE a

generateSlugTrimsFirst(text) ==
  CollapseHyphens(TrimHyphens(SpacesToHyphen(StripNonWord(trim(toLowerCase(text))))))
generateSlug(text) ==
  TrimHyphens(CollapseHyphens(SpacesToHyphen(StripNonWord(trim(toLowerCase(text))))))


(***************************************************************************)
(* Rate limiter (process-local)                                            *)
(*                                                                         *)
(* viewRateMap holds the entries of the (slug, client) pairs of the        *)
(* model; viewRateOthers counts the entries the Map holds for pairs        *)
(* outside the model's alphabet, all of them recorded at the instant the   *)
(* model starts (OthersStamp).  Date.now() is read several times in one    *)
(* synchronous call; the runtime does not advance it between them.         *)
(***************************************************************************)
RATE_LIMIT_MS == 60 * 60 * 1000
MAP_SWEEP_SIZE == 5000
OthersStamp == 0 + 1

\* the instants the clock of the model takes: around every window boundary
Instants ==
  {OthersStamp} \cup {k * RATE_LIMIT_MS + j : k \in 1..MaxWindows, j \in 0..2}

\* const key = `${slug}:${ip}`
RateKey(slug, ip) == slug \o <<":">> \o ip

\* viewRateMap.size
MapSize(map, others) == Cardinality(DOMAIN map) + others

isRateLimitedInclusive(map, slug, ip, t) ==
  LET key == RateKey(slug, ip)
  IN  key \in DOMAIN map /\ map[key] /= 0 /\ t - map[key] <= RATE_LIMIT_MS
\* the value isRateLimited returns: last && Date.now() - last < RATE_LIMIT_MS
isRateLimited(map, slug, ip, t) ==
  LET key == RateKey(slug, ip)
  IN  key \in DOMAIN map /\ map[key] /= 0 /\ t - map[key] < RATE_LIMIT_MS

\* viewRateMap.set(key, Date.now())
MapSet(map, key, t) ==
  [k \in DOMAIN map \cup {key} |-> IF k = key THEN t ELSE map[k]]

SweptMapClears(map, others, t) ==
  IF MapSize(map, others) > MAP_SWEEP_SIZE THEN <<>> ELSE map
\* the sweep: for (const [k, v] of viewRateMap) if (v < cutoff) delete
SweptMap(map, others, t) ==
  IF MapSize(map, others) > MAP_SWEEP_SIZE
  THEN [k \in {x \in DOMAIN map : ~(map[x] < t - RATE_LIMIT_MS)} |-> map[k]]
  ELSE map

SweptOthersKeeps(map, others, t) == others
SweptOthers(map, others, t) ==
  IF MapSize(map, others) > MAP_SWEEP_SIZE /\ OthersStamp < t - RATE_LIMIT_MS
  THEN 0
  ELSE others

RateMapAfterForgets(map, others, slug, ip, t) == map
RateMapAfterAlways(map, others, slug, ip, t) ==
  LET set == MapSet(map, RateKey(slug, ip), t)
  IN  SweptMap(set, others, t)
\* the Map after a call of isRateLimited(slug, ip) at time t
RateMapAfter(map, others, slug, ip, t) ==
  IF isRateLimited(map, slug, ip, t)
  THEN map
  ELSE LET set == MapSet(map, RateKey(slug, ip), t)
       IN  SweptMap(set, others, t)

\* the Map of a limiter without the sweep after a call of
\* isRateLimited(slug, ip) at time t
NeverSweptAfter(map, slug, ip, t) ==
  IF isRateLimited(map, slug, ip, t)
  THEN map
  ELSE MapSet(map, RateKey(slug, ip), t)

\* the entries of other pairs after that call
RateOthersAfter(map, others, slug, ip, t) ==
  IF isRateLimited(map, slug, ip, t)
  THEN others
  ELSE LET set == MapSet(map, RateKey(slug, ip), t)
       IN  SweptOthers(set, others, t)


(***************************************************************************)
(* The store                                                               *)
(***************************************************************************)
\* SQL NULL in an integer column (the handlers bind `x || null`)
NULL == 0

\* a row of songs; views is DEFAULT 0 and created_at DEFAULT CURRENT_TIMESTAMP
SongRow(id, title, slug, artist_id, composer_id, owner_id, category, lyrics, views, created_at) ==
  [id |-> id, title |-> title, slug |-> slug, artist_id |-> artist_id,
   composer_id |-> composer_id, copyright_owner_id |-> owner_id,
   category |-> category, lyrics |-> lyrics, views |-> views,
   created_at |-> created_at]

\* a row of artists, composers or copyright_owners (the free-text columns
\* bio, image_url, ... are stored as given and read by no handler)
PersonRow(id, name, slug) == [id |-> id, name |-> name, slug |-> slug]

(***************************************************************************)
(* Requests and responses                                                  *)
(***************************************************************************)
NoBody ==
  [json |-> TRUE, title |-> Empty, name |-> Empty, slug |-> Empty,
   artist_id |-> NULL, composer_id |-> NULL, copyright_owner_id |-> NULL,
   category |-> Empty, lyrics |-> Empty, email |-> Empty, message |-> Empty,
   subject |-> Empty, status |-> Empty, turnstile_token |-> Empty,
   song_artist |-> Empty]

NoReq ==
  [kind |-> "none", type |-> "none", id |-> 0, slug |-> Empty, ip |-> Empty,
   body |-> NoBody, page |-> 0, limit |-> 0, category |-> Empty, q |-> Empty,
   calls |-> <<>>]

\* a call of a Gateway operation on a table; with the calls of the
\* verification service, which carry a token, they make up the calls a
\* handler has made for its request, in the order it made them
Gateway(op, table) == [op |-> op, table |-> table, token |-> Empty]

\* the request r of a handler that has made the calls ops
Calls(r, ops) == [r EXCEPT !.calls = ops]

NoResp ==
  [status |-> 0, id |-> 0, slug |-> Empty, songs |-> <<>>, total |-> 0,
   page |-> 0, totalPages |-> 0, error |-> ""]

\* json(data, status); the data of notFound, badRequest, tooManyRequests and
\* of every other answer from 400 on is {error: message}, and "error" stands
\* for the messages the model does not tell apart
json(status) ==
  [NoResp EXCEPT !.status = status,
                 !.error = IF status >= 400 THEN "error" ELSE ""]

\* the request of a slot once it is answered: its route (method, path and
\* client) stays, the handler's locals (the body, the slug computed from it)
\* are gone
Answered(r) ==
  IF r.kind = "view" THEN r ELSE [r EXCEPT !.body = NoBody, !.slug = Empty]

\* slot p answers the request r with the response a
Respond(p, r, a) ==
  /\ req' = [req EXCEPT ![p] = Answered(r)]
  /\ resp' = [resp EXCEPT ![p] = a]
  /\ pc' = [pc EXCEPT ![p] = "idle"]
  /\ pending' = [pending EXCEPT ![p] = {}]

\* slot p, handling the request r, suspends at the Gateway call `at`
Await(p, r, at) ==
  /\ req' = [req EXCEPT ![p] = r]
  /\ resp' = [resp EXCEPT ![p] = NoResp]
  /\ pc' = [pc EXCEPT ![p] = at]
  /\ pending' = [pending EXCEPT ![p] = {}]

(***************************************************************************)
(* POST /api/view/:slug                                                    *)
(***************************************************************************)
\* request.headers.get('CF-Connecting-IP') || 'unknown'
Unknown == <<"u", "n", "k", "n", "o", "w", "n">>
ClientIpRaw(header) == header
ClientIp(header) == IF header = Empty THEN Unknown ELSE header

\* the slugs and the proxy headers of the view requests of the model
ViewSlugs == {Empty, <<"a">>, <<"b">>, <<"c">>}
ClientHeaders == {Empty, <<"1">>, <<"2">>}

\* handleViewIncrement up to its await: the slug check and the rate limiter
ViewReq(slug, ip) == [NoReq EXCEPT !.kind = "view", !.slug = slug, !.ip = ip]

handleViewIncrement(p, slug, header) ==
  /\ pc[p] = "idle"
  /\ UNCHANGED <<store, now>>
  /\ IF slug = Empty
     THEN /\ Respond(p, ViewReq(slug, ClientIp(header)), json(400))
          /\ UNCHANGED <<viewRateMap, viewRateOthers, neverSwept>>
     ELSE /\ viewRateMap' =
               RateMapAfter(viewRateMap, viewRateOthers, slug, ClientIp(header), now)
          /\ viewRateOthers' =
               RateOthersAfter(viewRateMap, viewRateOthers, slug, ClientIp(header), now)
          /\ neverSwept' = NeverSweptAfter(neverSwept, slug, ClientIp(header), now)
          /\ IF isRateLimited(viewRateMap, slug, ClientIp(header), now)
             THEN Respond(p, ViewReq(slug, ClientIp(header)), json(429))
             ELSE Await(p, Calls(ViewReq(slug, ClientIp(header)),
                                 <<Gateway("incrementViews", "songs")>>), "incr")

incrementViewsLost(rows, slug) ==
  {IF s.slug = slug THEN [s EXCEPT !.views = 1] ELSE s : s \in rows}
\* UPDATE songs SET views = views + 1 WHERE slug = ?
incrementViewsRows(rows, slug) ==
  {IF s.slug = slug THEN [s EXCEPT !.views = @ + 1] ELSE s : s \in rows}

\* result.meta.changes
incrementViewsChanges(rows, slug) == Cardinality({s \in rows : s.slug = slug})

\* the UPDATE of incrementViews and the rest of handleViewIncrement
incrementViews(p) ==
  /\ pc[p] = "incr"
  /\ \A s \in songs : s.slug = req[p].slug => s.views < MaxViews
  /\ songs' = incrementViewsRows(songs, req[p].slug)
  /\ IF incrementViewsChanges(songs, req[p].slug) > 0
     THEN Respond(p, req[p], [json(200) EXCEPT !.slug = req[p].slug])
     ELSE Respond(p, req[p], json(404))
  /\ UNCHANGED <<moderation, artists, composers, copyright_owners, seq,
                 viewRateMap, viewRateOthers, neverSwept, now>>

\* time passes
Tick ==
  /\ \E t \in Instants : t > now /\ now' = t
  /\ UNCHANGED <<store, viewRateMap, viewRateOthers, neverSwept, pc, req, pending, resp>>

(***************************************************************************)
(* Constraints of the schema                                               *)
(***************************************************************************)
SlugTakenNever(rows, slug, self) == FALSE
\* slug TEXT UNIQUE NOT NULL: another row of the table holds the slug
SlugTaken(rows, slug, self) == \E r \in rows : r.slug = slug /\ r.id /= self

\* the UNIQUE constraint of copyright_owners.slug (the table is not in
\* schema.sql)
OwnerSlugTaken(rows, slug, self) == \E r \in rows : r.slug = slug /\ r.id /= self

\* FOREIGN KEY (..) REFERENCES parent(id): the store refuses a dangling id
ForeignKeyOk(id, parent) == id = NULL \/ \E r \in parent : r.id = id

\* songs.copyright_owner_id REFERENCES copyright_owners(id) ON DELETE SET NULL
\* (the column is not in schema.sql)
OwnerForeignKeyOk(id, parent) == id = NULL \/ \E r \in parent : r.id = id
OwnerSetNull(rows, id) ==
  {IF s.copyright_owner_id = id THEN [s EXCEPT !.copyright_owner_id = NULL] ELSE s :
     s \in rows}

SetNullKeeps(rows, column, id) == rows
SetNullCascades(rows, column, id) == {s \in rows : s[column] /= id}
\* ON DELETE SET NULL
SetNull(rows, column, id) ==
  {IF s[column] = id THEN [s EXCEPT ![column] = NULL] ELSE s : s \in rows}

(***************************************************************************)
(* Gateway reads                                                           *)
(***************************************************************************)
\* SELECT * FROM t WHERE slug = ? ... .first(): no row, or the first one
getBySlug(rows, slug) ==
  LET found == {r \in rows : r.slug = slug}
  IN  IF found = {} THEN {}
      ELSE {CHOOSE r \in found : \A o \in found : r.id <= o.id}

(***************************************************************************)
(* Admin handlers, shared shape                                            *)
(***************************************************************************)
\* !x || !x.trim()
Blank(x) == trim(x) = Empty

EffectiveSlugRaw(slug, text) ==
  IF slug /= Empty THEN slug ELSE generateSlug(text)
\* slug = (slug && slug.trim()) ? slug.trim() : generateSlug(text)
EffectiveSlug(slug, text) ==
  IF trim(slug) /= Empty THEN trim(slug) ELSE generateSlug(text)

\* x?.trim() || null
TrimOrNull(x) == trim(x)

AdminReq(kind, type, id, body, slug) ==
  [NoReq EXCEPT !.kind = kind, !.type = type, !.id = id, !.body = body,
                !.slug = slug]

\* the object a song handler hands to createSong / updateSong
SongData(body, slug) ==
  [NoBody EXCEPT !.title = trim(body.title), !.slug = slug,
                 !.artist_id = body.artist_id, !.composer_id = body.composer_id,
                 !.copyright_owner_id = body.copyright_owner_id,
                 !.category = TrimOrNull(body.category),
                 !.lyrics = trim(body.lyrics)]

\* the object a handler hands to createArtist / updateArtist (and the same
\* for composers and copyright owners)
PersonData(body, slug) == [NoBody EXCEPT !.name = trim(body.name), !.slug = slug]

\* the Response of the catch of the Dispatcher
ServerError == [json(500) EXCEPT !.error = "Internal server error"]

\* the catch of the Dispatcher: any exception becomes a 500
InternalError(p) == Respond(p, req[p], ServerError)

(***************************************************************************)
(* Admin song CRUD                                                         *)
(***************************************************************************)
SongInvalid(body) == ~body.json \/ Blank(body.title) \/ Blank(body.lyrics)

ProbeCreateNever(rows, slug) == FALSE
\* the probe of a create: if (existing) return 409
ProbeCreate(rows, slug) == getBySlug(rows, slug) /= {}

ProbeUpdateAny(rows, slug, id) == getBySlug(rows, slug) /= {}
\* the probe of an update: if (existing && existing.id !== parseInt(id, 10))
ProbeUpdate(rows, slug, id) == \E e \in getBySlug(rows, slug) : e.id /= id

\* handleAdminCreateSong up to its second await
handleAdminCreateSong(p, body) ==
  /\ pc[p] = "idle"
  /\ UNCHANGED <<store, viewRateMap, viewRateOthers, neverSwept, now>>
  /\ IF SongInvalid(body)
     THEN Respond(p, AdminReq("create", "songs", 0, body, Empty), json(400))
     ELSE LET slug == EffectiveSlug(body.slug, body.title)
          IN  IF ProbeCreate(songs, slug)
           THEN Respond(p, Calls(AdminReq("create", "songs", 0, body, slug),
                                 <<Gateway("getBySlug", "songs")>>), json(409))
           ELSE Await(p, Calls(AdminReq("create", "songs", 0, SongData(body, slug), slug),
                               <<Gateway("getBySlug", "songs"), Gateway("create", "songs")>>),
                      "insert")

\* the row createSong inserts
NewSong(id, song, t) ==
  SongRow(id, song.title, song.slug, song.artist_id, song.composer_id,
          song.copyright_owner_id, song.category, song.lyrics, 0, t)

SongConstraintsOk(body, slug, self) ==
  /\ ~SlugTaken(songs, slug, self)
  /\ ForeignKeyOk(body.artist_id, artists)
  /\ ForeignKeyOk(body.composer_id, composers)
  /\ OwnerForeignKeyOk(body.copyright_owner_id, copyright_owners)

\* the INSERT of createSong and the rest of handleAdminCreateSong
createSong(p) ==
  /\ pc[p] = "insert" /\ req[p].type = "songs"
  /\ UNCHANGED <<moderation, artists, composers, copyright_owners, viewRateMap,
                 viewRateOthers, neverSwept, now>>
  /\ IF SongConstraintsOk(req[p].body, req[p].slug, 0)
     THEN /\ seq.songs < MaxId
          /\ songs' = songs \cup {NewSong(seq.songs + 1, req[p].body, now)}
          /\ seq' = [seq EXCEPT !.songs = @ + 1]
          /\ Respond(p, req[p], [json(201) EXCEPT !.id = seq.songs + 1, !.slug = req[p].slug])
     ELSE /\ UNCHANGED <<songs, seq>>
          /\ InternalError(p)

\* handleAdminUpdateSong up to its second await
handleAdminUpdateSong(p, id, body) ==
  /\ pc[p] = "idle"
  /\ UNCHANGED <<store, viewRateMap, viewRateOthers, neverSwept, now>>
  /\ IF SongInvalid(body)
     THEN Respond(p, AdminReq("update", "songs", id, body, Empty), json(400))
     ELSE LET slug == EffectiveSlug(body.slug, body.title)
          IN  IF ProbeUpdate(songs, slug, id)
           THEN Respond(p, Calls(AdminReq("update", "songs", id, body, slug),
                                 <<Gateway("getBySlug", "songs")>>), json(409))
           ELSE Await(p, Calls(AdminReq("update", "songs", id, SongData(body, slug), slug),
                               <<Gateway("getBySlug", "songs"), Gateway("update", "songs")>>),
                      "update")

UpdatedSongResetsViews(s, song) ==
  [s EXCEPT !.title = song.title, !.slug = song.slug,
            !.artist_id = song.artist_id, !.composer_id = song.composer_id,
            !.copyright_owner_id = song.copyright_owner_id,
            !.category = song.category, !.lyrics = song.lyrics,
            !.views = 0]
\* UPDATE songs SET title, slug, artist_id, composer_id, copyright_owner_id,
\* category, lyrics WHERE id = ?
UpdatedSong(s, song) ==
  [s EXCEPT !.title = song.title, !.slug = song.slug,
            !.artist_id = song.artist_id, !.composer_id = song.composer_id,
            !.copyright_owner_id = song.copyright_owner_id,
            !.category = song.category, !.lyrics = song.lyrics]

\* the UPDATE of updateSong and the rest of handleAdminUpdateSong
updateSong(p) ==
  /\ pc[p] = "update" /\ req[p].type = "songs"
  /\ UNCHANGED <<moderation, artists, composers, copyright_owners, seq, viewRateMap,
                 viewRateOthers, neverSwept, now>>
  /\ IF ~\E s \in songs : s.id = req[p].id
     THEN /\ UNCHANGED songs
          /\ Respond(p, req[p], json(404))
     ELSE IF SongConstraintsOk(req[p].body, req[p].slug, req[p].id)
     THEN /\ songs' = {IF s.id = req[p].id
                       THEN UpdatedSong(s, req[p].body)
                       ELSE s : s \in songs}
          /\ Respond(p, req[p], [json(200) EXCEPT !.id = req[p].id, !.slug = req[p].slug])
     ELSE /\ UNCHANGED songs
          /\ InternalError(p)

DeletedAll(rows, id) == {}
\* DELETE FROM t WHERE id = ?
Deleted(rows, id) == {r \in rows : r.id /= id}

\* handleAdminDeleteSong with deleteSong
handleAdminDeleteSong(p, id) ==
  /\ pc[p] = "idle"
  /\ songs' = Deleted(songs, id)
  /\ IF \E s \in songs : s.id = id
     THEN Respond(p, Calls(AdminReq("delete", "songs", id, NoBody, Empty),
                  <<Gateway("delete", "songs")>>), json(200))
     ELSE Respond(p, Calls(AdminReq("delete", "songs", id, NoBody, Empty),
                  <<Gateway("delete", "songs")>>), json(404))
  /\ UNCHANGED <<moderation, artists, composers, copyright_owners, seq, viewRateMap,
                 viewRateOthers, neverSwept, now>>

(***************************************************************************)
(* Admin artist, composer and copyright owner CRUD                         *)
(***************************************************************************)
PersonTypes == {"artists", "composers", "copyright_owners"}

Table(type) ==
  CASE type = "songs" -> songs
    [] type = "artists" -> artists
    [] type = "composers" -> composers
    [] type = "copyright_owners" -> copyright_owners

\* the column of songs that references the table
RefColumn(type) ==
  CASE type = "artists" -> "artist_id"
    [] type = "composers" -> "composer_id"
    [] type = "copyright_owners" -> "copyright_owner_id"

PersonInvalid(body) == ~body.json \/ Blank(body.name)

PersonSlugTaken(type, slug, self) ==
  IF type = "copyright_owners"
  THEN OwnerSlugTaken(copyright_owners, slug, self)
  ELSE SlugTaken(Table(type), slug, self)

\* the tables after a statement gave `type` the rows `rows`
PersonTablesBecome(type, rows) ==
  /\ artists' = IF type = "artists" THEN rows ELSE artists
  /\ composers' = IF type = "composers" THEN rows ELSE composers
  /\ copyright_owners' = IF type = "copyright_owners" THEN rows ELSE copyright_owners

\* handleAdminCreateArtist / Composer / CopyrightOwner up to the second await
handleAdminCreatePerson(p, type, body) ==
  /\ pc[p] = "idle"
  /\ UNCHANGED <<store, viewRateMap, viewRateOthers, neverSwept, now>>
  /\ IF PersonInvalid(body)
     THEN Respond(p, AdminReq("create", type, 0, body, Empty), json(400))
     ELSE LET slug == EffectiveSlug(body.slug, body.name)
          IN  IF ProbeCreate(Table(type), slug)
           THEN Respond(p, Calls(AdminReq("create", type, 0, body, slug),
                                 <<Gateway("getBySlug", type)>>), json(409))
           ELSE Await(p, Calls(AdminReq("create", type, 0, PersonData(body, slug), slug),
                               <<Gateway("getBySlug", type), Gateway("create", type)>>),
                      "insert")

\* the INSERT of createArtist / createComposer / createCopyrightOwner
createPerson(p) ==
  /\ pc[p] = "insert" /\ req[p].type \in PersonTypes
  /\ UNCHANGED <<moderation, songs, viewRateMap, viewRateOthers, neverSwept, now>>
  /\ LET type == req[p].type
     IN  IF ~PersonSlugTaken(type, req[p].slug, 0)
         THEN /\ seq[type] < MaxId
              /\ PersonTablesBecome(type, Table(type) \cup
                   {PersonRow(seq[type] + 1, req[p].body.name, req[p].body.slug)})
              /\ seq' = [seq EXCEPT ![type] = @ + 1]
              /\ Respond(p, req[p], [json(201) EXCEPT !.id = seq[type] + 1, !.slug = req[p].slug])
         ELSE /\ UNCHANGED <<artists, composers, copyright_owners, seq>>
              /\ InternalError(p)

\* handleAdminUpdateArtist / Composer / CopyrightOwner up to the second await
handleAdminUpdatePerson(p, type, id, body) ==
  /\ pc[p] = "idle"
  /\ UNCHANGED <<store, viewRateMap, viewRateOthers, neverSwept, now>>
  /\ IF PersonInvalid(body)
     THEN Respond(p, AdminReq("update", type, id, body, Empty), json(400))
     ELSE LET slug == EffectiveSlug(body.slug, body.name)
          IN  IF ProbeUpdate(Table(type), slug, id)
           THEN Respond(p, Calls(AdminReq("update", type, id, body, slug),
                                 <<Gateway("getBySlug", type)>>), json(409))
           ELSE Await(p, Calls(AdminReq("update", type, id, PersonData(body, slug), slug),
                               <<Gateway("getBySlug", type), Gateway("update", type)>>),
                      "update")

\* the UPDATE of updateArtist / updateComposer / updateCopyrightOwner
updatePerson(p) ==
  /\ pc[p] = "update" /\ req[p].type \in PersonTypes
  /\ UNCHANGED <<moderation, songs, seq, viewRateMap, viewRateOthers, neverSwept, now>>
  /\ LET type == req[p].type
     IN  IF ~\E r \in Table(type) : r.id = req[p].id
         THEN /\ UNCHANGED <<artists, composers, copyright_owners>>
              /\ Respond(p, req[p], json(404))
         ELSE IF ~PersonSlugTaken(type, req[p].slug, req[p].id)
         THEN /\ PersonTablesBecome(type,
                   {IF r.id = req[p].id
                    THEN [r EXCEPT !.name = req[p].body.name, !.slug = req[p].body.slug]
                    ELSE r : r \in Table(type)})
              /\ Respond(p, req[p], [json(200) EXCEPT !.id = req[p].id, !.slug = req[p].slug])
         ELSE /\ UNCHANGED <<artists, composers, copyright_owners>>
              /\ InternalError(p)

\* handleAdminDeleteArtist / Composer / CopyrightOwner with the DELETE, which
\* sets the references of songs to the row to NULL
handleAdminDeletePerson(p, type, id) ==
  /\ pc[p] = "idle"
  /\ PersonTablesBecome(type, Deleted(Table(type), id))
  /\ IF \E r \in Table(type) : r.id = id
     THEN /\ songs' = IF type = "copyright_owners"
                      THEN OwnerSetNull(songs, id)
                      ELSE SetNull(songs, RefColumn(type), id)
          /\ Respond(p, Calls(AdminReq("delete", type, id, NoBody, Empty),
                  <<Gateway("delete", type)>>), json(200))
     ELSE /\ songs' = songs
          /\ Respond(p, Calls(AdminReq("delete", type, id, NoBody, Empty),
                  <<Gateway("delete", type)>>), json(404))
  /\ UNCHANGED <<moderation, seq, viewRateMap, viewRateOthers, neverSwept, now>>

GatewayFailureRetries(p) ==
  /\ pc[p] \notin {"idle", "verify"}
  /\ Len(req[p].calls) < 3
  /\ req' = [req EXCEPT ![p].calls = Append(@, @[Len(@)])]
  /\ UNCHANGED <<store, viewRateMap, viewRateOthers, neverSwept, now, pc, pending, resp>>
\* a Gateway call fails (connectivity): the statement has no effect and the
\* exception reaches the catch of the Dispatcher.  A slot at "verify" awaits
\* the verification service, not the Gateway.
GatewayFailure(p) ==
  /\ pc[p] \notin {"idle", "verify"}
  /\ InternalError(p)
  /\ UNCHANGED <<store, viewRateMap, viewRateOthers, neverSwept, now>>

(***************************************************************************)
(* Scenario: view requests in flight at once, one per slot, on a store     *)
(* nothing else writes.                                                    *)
(***************************************************************************)
Txt(c) == <<c>>

RaceSongs ==
  {SongRow(1, Txt("A"), Txt("a"), NULL, NULL, NULL, Empty, Txt("x"), 0, OthersStamp),
   SongRow(2, Txt("B"), Txt("b"), NULL, NULL, NULL, Empty, Txt("x"), 1, OthersStamp)}

InitRace ==
  /\ songs = RaceSongs
  /\ artists = {} /\ composers = {} /\ copyright_owners = {}
  /\ seq = [songs |-> 2, artists |-> 0, composers |-> 0, copyright_owners |-> 0,
            reports |-> 0, contacts |-> 0]
  /\ reports = {} /\ contacts = {}
  /\ viewRateMap = <<>>
  /\ viewRateOthers = 0
  /\ neverSwept = <<>>
  /\ now = OthersStamp
  /\ pc = [p \in RaceProcs |-> "idle"]
  /\ req = [p \in RaceProcs |-> NoReq]
  /\ pending = [p \in RaceProcs |-> {}]
  /\ resp = [p \in RaceProcs |-> NoResp]

RaceStart(p) ==
  /\ req[p].kind = "none"
  /\ \E slug \in ViewSlugs, header \in ClientHeaders :
        handleViewIncrement(p, slug, header)

NextRace ==
  \E p \in RaceProcs : RaceStart(p) \/ incrementViews(p)

SpecRace == InitRace /\ [][NextRace]_vars


(***************************************************************************)
(* C1                                                                      *)
(***************************************************************************)
\* the views a song of the scenario starts with
RaceViews0(id) == (CHOOSE s \in RaceSongs : s.id = id).views

\* the view requests for a slug that passed the rate limiter and were answered
RaceServed(slug) ==
  {p \in DOMAIN pc : /\ req[p].kind = "view" /\ req[p].slug = slug
                     /\ pc[p] = "idle" /\ resp[p].status \notin {0, 400, 429}}

\* C1: view requests for one existing slug, processed concurrently in any
\* interleaving and not rejected by the rate limiter (so from distinct
\* clients), are all answered 200, and the song's views counter stands
\* exactly as many higher than at the start as requests were answered.
C1_ViewIncrementAtomic ==
  \A s \in songs :
     /\ \A p \in RaceServed(s.slug) : resp[p].status = 200 /\ resp[p].slug = s.slug
     /\ s.views = RaceViews0(s.id) + Cardinality(RaceServed(s.slug))
     /\ \A p, q \in RaceServed(s.slug) : p /= q => req[p].ip /= req[q].ip

\* three requests of three clients for the slug "b" were in flight together
\* and all are answered
C1_Witness ==
  /\ \A p \in RaceProcs : p \in RaceServed(Txt("b")) /\ resp[p].status = 200
  /\ \E s \in songs : s.slug = Txt("b") /\ s.views = RaceViews0(s.id) + 3


(***************************************************************************)
(* Scenario: view requests over time.  The store holds songs "a" and "b"   *)
(* and no song "c"; the Map may already hold entries of other pairs.       *)
(***************************************************************************)
\* the slugs and headers of this scenario
WindowSlugs == {<<"a">>, <<"c">>}
WindowHeaders == {Empty, <<"1">>}

InitViews ==
  /\ songs = RaceSongs
  /\ artists = {} /\ composers = {} /\ copyright_owners = {}
  /\ seq = [songs |-> 2, artists |-> 0, composers |-> 0, copyright_owners |-> 0,
            reports |-> 0, contacts |-> 0]
  /\ reports = {} /\ contacts = {}
  /\ viewRateMap = <<>>
  /\ viewRateOthers \in {0, MAP_SWEEP_SIZE - 1}
  /\ neverSwept = <<>>
  /\ now = OthersStamp
  /\ pc = [p \in Procs |-> "idle"]
  /\ req = [p \in Procs |-> NoReq]
  /\ pending = [p \in Procs |-> {}]
  /\ resp = [p \in Procs |-> NoResp]

ViewStart(p) ==
  \E slug \in WindowSlugs, header \in WindowHeaders :
     handleViewIncrement(p, slug, header)

NextViews ==
  \/ \E p \in Procs : ViewStart(p) \/ incrementViews(p)
  \/ Tick

SpecViews == InitViews /\ [][NextViews]_vars


(***************************************************************************)
(* C2                                                                      *)
(***************************************************************************)
\* in this step slot p takes in a view request of client ip for slug
ViewCalled(p, slug, ip) ==
  /\ pc[p] = "idle"
  /\ req'[p].kind = "view" /\ req'[p].slug = slug /\ req'[p].ip = ip
  /\ pc'[p] /= pc[p] \/ resp'[p] /= resp[p] \/ req'[p] /= req[p]

\* in this step slot p gets the result of its UPDATE
ViewCounted(p) == pc[p] = "incr" /\ pc'[p] = "idle"

SongExists(slug) == \E s \in songs : s.slug = slug

\* the age of the entry of key at the current instant
Age(key) == now - viewRateMap[key]

\* C2: for an existing song, once a view of (slug, client) is accepted at
\* time t, the entry keeps the value t while younger than one hour, every
\* request of the pair at an age below one hour is answered 429 and changes
\* neither the Map nor the store, the first request at an age of one hour or
\* more passes the limiter and records the current time, and a request that
\* passed the limiter raises the counter of the song by exactly 1.
C2_RateLimitWindow ==
  [][ /\ \A k \in DOMAIN viewRateMap :
            Age(k) < RATE_LIMIT_MS =>
               k \in DOMAIN viewRateMap' /\ viewRateMap'[k] = viewRateMap[k]
      /\ \A p \in DOMAIN pc, slug \in WindowSlugs, ip \in {ClientIp(h) : h \in WindowHeaders} :
            /\ ViewCalled(p, slug, ip) /\ SongExists(slug)
               /\ RateKey(slug, ip) \in DOMAIN viewRateMap
               /\ Age(RateKey(slug, ip)) < RATE_LIMIT_MS
               => /\ resp'[p].status = 429 /\ pc'[p] = "idle"
                  /\ viewRateMap' = viewRateMap /\ viewRateOthers' = viewRateOthers
                  /\ store' = store
            /\ ViewCalled(p, slug, ip) /\ SongExists(slug)
               /\ RateKey(slug, ip) \in DOMAIN viewRateMap
               /\ Age(RateKey(slug, ip)) >= RATE_LIMIT_MS
               => /\ pc'[p] = "incr"
                  /\ RateKey(slug, ip) \in DOMAIN viewRateMap'
                  /\ viewRateMap'[RateKey(slug, ip)] = now
                  /\ store' = store
      /\ \A p \in DOMAIN pc :
            ViewCounted(p) /\ SongExists(req[p].slug)
               => /\ resp'[p].status = 200
                  /\ songs' = {IF s.slug = req[p].slug
                               THEN [s EXCEPT !.views = s.views + 1]
                               ELSE s : s \in songs}
    ]_vars

\* the pair ("a", "1") was accepted at the start and again one hour later;
\* both views are counted, and a further request of the pair one
\* millisecond after that is answered 429
C2_Witness ==
  LET k == RateKey(Txt("a"), Txt("1"))
  IN  /\ DOMAIN viewRateMap = {k}
      /\ viewRateMap[k] = RATE_LIMIT_MS + OthersStamp
      /\ now = RATE_LIMIT_MS + OthersStamp + 1
      /\ \E s \in songs : s.slug = Txt("a") /\ s.views = RaceViews0(s.id) + 2
      /\ resp["p1"].status = 200 /\ req["p1"].slug = Txt("a") /\ req["p1"].ip = Txt("1")
      /\ resp["p2"].status = 429 /\ req["p2"].slug = Txt("a") /\ req["p2"].ip = Txt("1")


(***************************************************************************)
(* C3                                                                      *)
(***************************************************************************)
\* in this step slot p answers a view request
ViewAnswered(p) ==
  /\ pc'[p] = "idle" /\ req'[p].kind = "view" /\ resp'[p].status /= 0
  /\ \/ ViewCounted(p)
     \/ ViewCalled(p, req'[p].slug, req'[p].ip)

\* C3: every view request whose slug matches no song, also a repeated one of
\* the same client, is answered 404 and changes the views of no song.
C3_AbsentSlugNotFound ==
  [][ \A p \in DOMAIN pc :
         ViewAnswered(p) /\ req'[p].slug /= Empty /\ ~SongExists(req'[p].slug)
            => resp'[p].status = 404 /\ songs' = songs
    ]_vars


(***************************************************************************)
(* The system: admin requests on the four tables and view requests,        *)
(* handled concurrently.                                                   *)
(***************************************************************************)
SongBody(title, slug, artist_id, composer_id, owner_id) ==
  [NoBody EXCEPT !.title = title, !.slug = slug, !.artist_id = artist_id,
                 !.composer_id = composer_id, !.copyright_owner_id = owner_id,
                 !.lyrics = Txt("x")]

PersonBody(name, slug) == [NoBody EXCEPT !.name = name, !.slug = slug]

\* the request bodies of the model
SongBodies ==
  {SongBody(Txt("A"), Empty, 1, NULL, NULL),
   SongBody(Txt("A"), Empty, NULL, 1, NULL),
   SongBody(Txt("A"), Empty, NULL, NULL, 1),
   SongBody(Txt("B"), Empty, NULL, NULL, NULL),
   SongBody(Txt("B"), <<" ", "b", " ">>, NULL, NULL, NULL),
   SongBody(<<" ">>, Txt("a"), NULL, NULL, NULL),
   [NoBody EXCEPT !.json = FALSE]}

PersonBodies ==
  {PersonBody(Txt("A"), Empty),
   PersonBody(Txt("B"), Empty),
   PersonBody(Txt("A"), <<" ", "a", " ">>),
   PersonBody(<<" ">>, Txt("a")),
   [NoBody EXCEPT !.json = FALSE]}

\* the ids of the admin routes /api/admin/<type>/:id
Ids == 1..MaxId

\* a store to start from: one song that references the one row of the
\* table `type`; the other two reference tables are empty and their
\* sequences used up
SeedRows(type, t) == IF t = type THEN {PersonRow(1, Txt("A"), Txt("a"))} ELSE {}

InitStore ==
  \E type \in PersonTypes :
     /\ artists = SeedRows(type, "artists")
     /\ composers = SeedRows(type, "composers")
     /\ copyright_owners = SeedRows(type, "copyright_owners")
     /\ songs = {SongRow(1, Txt("A"), Txt("a"),
                         IF type = "artists" THEN 1 ELSE NULL,
                         IF type = "composers" THEN 1 ELSE NULL,
                         IF type = "copyright_owners" THEN 1 ELSE NULL,
                         Empty, Txt("x"), 0, OthersStamp)}
     /\ seq = [t \in {"songs", "reports", "contacts"} \cup PersonTypes |->
                 IF t \in {"songs", type} THEN 1
                 ELSE IF t \in PersonTypes THEN MaxId ELSE 0]
     /\ reports = {} /\ contacts = {}

\* a reference table takes requests while it holds a row or can get one
Open(type) == Table(type) /= {} \/ seq[type] < MaxId

Init ==
  /\ InitStore
  /\ viewRateMap = <<>>
  /\ viewRateOthers = 0
  /\ neverSwept = <<>>
  /\ now = OthersStamp
  /\ pc = [p \in Procs |-> "idle"]
  /\ req = [p \in Procs |-> NoReq]
  /\ pending = [p \in Procs |-> {}]
  /\ resp = [p \in Procs |-> NoResp]

\* every table a body refers to takes requests
Refers(body) ==
  \A type \in PersonTypes : body[RefColumn(type)] /= NULL => Open(type)

AdminSong(p) ==
  \/ \E body \in SongBodies : Refers(body) /\ handleAdminCreateSong(p, body)
  \/ createSong(p)
  \/ \E id \in Ids, body \in SongBodies :
        Refers(body) /\ handleAdminUpdateSong(p, id, body)
  \/ updateSong(p)
  \/ \E id \in Ids : handleAdminDeleteSong(p, id)

AdminPerson(p) ==
  \/ \E type \in PersonTypes, body \in PersonBodies :
        Open(type) /\ handleAdminCreatePerson(p, type, body)
  \/ createPerson(p)
  \/ \E type \in PersonTypes, id \in Ids, body \in PersonBodies :
        Open(type) /\ handleAdminUpdatePerson(p, type, id, body)
  \/ updatePerson(p)
  \/ \E type \in PersonTypes, id \in Ids :
        Open(type) /\ handleAdminDeletePerson(p, type, id)

\* the Response of slot p has left the Worker: the slot keeps nothing of it
Return(p) ==
  /\ pc[p] = "idle" /\ resp[p].status /= 0
  /\ req' = [req EXCEPT ![p] = NoReq]
  /\ resp' = [resp EXCEPT ![p] = NoResp]
  /\ UNCHANGED <<store, viewRateMap, viewRateOthers, neverSwept, now, pc, pending>>

\* the code from the last await of a handler to the return of its Response
\* runs without interruption: no other slot acts before the Response left
Returned(p) == \A q \in Procs \ {p} : resp[q].status = 0

Next ==
  \E p \in Procs :
     \/ Return(p)
     \/ Returned(p) /\ AdminSong(p)
     \/ Returned(p) /\ AdminPerson(p)
     \/ Returned(p) /\ GatewayFailure(p)

Spec == Init /\ [][Next]_vars

(***************************************************************************)
(* Admin requests, as the claims speak of them                             *)
(***************************************************************************)
AdminTypes == {"songs"} \cup PersonTypes

Bodies(type) == IF type = "songs" THEN SongBodies ELSE PersonBodies

Invalid(type, body) ==
  IF type = "songs" THEN SongInvalid(body) ELSE PersonInvalid(body)

\* the effective slug of a body
SlugOf(type, body) ==
  EffectiveSlug(body.slug, IF type = "songs" THEN body.title ELSE body.name)

\* the table of a type after the step
TableNext(type) ==
  CASE type = "songs" -> songs'
    [] type = "artists" -> artists'
    [] type = "composers" -> composers'
    [] type = "copyright_owners" -> copyright_owners'

Holds(type, slug) == \E r \in Table(type) : r.slug = slug

Exists(type, id) == \E r \in Table(type) : r.id = id

\* in this step slot p takes in a request of this kind
Takes(p, kind) ==
  /\ pc[p] = "idle" /\ req'[p].kind = kind
  /\ pc'[p] /= "idle" \/ resp'[p].status /= 0

\* in this step slot p takes in a create request with this body
CreateCalled(p, type, body) ==
  IF type = "songs" THEN handleAdminCreateSong(p, body)
  ELSE handleAdminCreatePerson(p, type, body)

\* in this step slot p takes in an update request for id with this body
UpdateCalled(p, type, id, body) ==
  IF type = "songs" THEN handleAdminUpdateSong(p, id, body)
  ELSE handleAdminUpdatePerson(p, type, id, body)

\* in this step the UPDATE of slot p runs
UpdateRan(p) == updateSong(p) \/ updatePerson(p)


(***************************************************************************)
(* C4                                                                      *)
(***************************************************************************)
SlugsUnique(rows) == \A r1, r2 \in rows : r1.slug = r2.slug => r1 = r2

\* C4: in every reachable state, after any sequence and interleaving of
\* create, update and delete requests, no two songs, no two artists, no two
\* composers and no two copyright owners hold the same slug.
C4_SlugUnique == \A type \in AdminTypes : SlugsUnique(Table(type))

\* a create passed its probe, another request then gave a row the same slug,
\* and the INSERT is still to run
C4_Witness ==
  \E p \in Procs : pc[p] = "insert" /\ Holds(req[p].type, req[p].slug)


(***************************************************************************)
(* C5                                                                      *)
(***************************************************************************)
\* C5: a create request with a valid body whose effective slug is held by a
\* row of the same type is answered 409 and the store is left as it is; when
\* no row of the same type holds the slug, whatever rows of other types
\* hold it, the request is not answered 409 and goes on to its INSERT.
C5_CreateConflict ==
  [][ \A p \in Procs :
         Takes(p, "create") =>
            LET type == req'[p].type
            IN  \A body \in Bodies(type) :
                   CreateCalled(p, type, body) /\ ~Invalid(type, body)
                      => IF Holds(type, SlugOf(type, body))
                         THEN resp'[p].status = 409 /\ store' = store
                         ELSE resp'[p].status /= 409 /\ pc'[p] = "insert"
    ]_vars

\* a create of an artist is answered 409 while the create of a song, whose
\* slug an artist holds and no song, waits for its INSERT
C5_Witness ==
  \E p, q \in Procs :
     /\ req[p].kind = "create" /\ req[p].type = "artists" /\ resp[p].status = 409
     /\ pc[q] = "insert" /\ req[q].type = "songs"
     /\ Holds("artists", req[q].slug) /\ ~Holds("songs", req[q].slug)


(***************************************************************************)
(* C6                                                                      *)
(***************************************************************************)
\* C6: an update of an existing row X with a valid body is answered 409
\* exactly if a row of the same type other than X holds the effective slug
\* (so never because X holds it), the 409 leaves the store as it is,
\* without it the request goes on to its UPDATE, and the UPDATE never
\* answers 409.
C6_UpdateExcludesSelf ==
  [][ \A p \in Procs :
        /\ Takes(p, "update") /\ Exists(req'[p].type, req'[p].id) =>
              LET type == req'[p].type
                  id   == req'[p].id
              IN  \A body \in Bodies(type) :
                     UpdateCalled(p, type, id, body) /\ ~Invalid(type, body)
                        => LET slug  == SlugOf(type, body)
                               other == \E r \in Table(type) :
                                           r.slug = slug /\ r.id /= id
                           IN  /\ resp'[p].status = 409 <=> other
                               /\ other => store' = store
                               /\ ~other => pc'[p] = "update"
        /\ pc[p] = "update" /\ UpdateRan(p) => resp'[p].status /= 409
    ]_vars

\* an update of a row with the slug the row holds has passed the probe
C6_Witness ==
  \E p \in Procs :
     /\ pc[p] = "update"
     /\ \E x \in Table(req[p].type) : x.id = req[p].id /\ x.slug = req[p].slug


(***************************************************************************)
(* C7                                                                      *)
(***************************************************************************)
\* C7: an update request with a valid body whose id matches no row of its
\* type is answered 404, whatever slug it carries, and changes no row:
\* neither the probe nor the UPDATE answers it otherwise.
C7_AbsentTargetNotFound ==
  [][ \A p \in Procs :
        /\ Takes(p, "update") /\ ~Exists(req'[p].type, req'[p].id)
              /\ pc'[p] = "idle" =>
              LET type == req'[p].type
                  id   == req'[p].id
              IN  \A body \in Bodies(type) :
                     UpdateCalled(p, type, id, body) /\ ~Invalid(type, body)
                        => resp'[p].status = 404 /\ store' = store
        /\ pc[p] = "update" /\ ~Exists(req[p].type, req[p].id) /\ UpdateRan(p)
              => resp'[p].status = 404 /\ store' = store
    ]_vars


(***************************************************************************)
(* C9                                                                      *)
(***************************************************************************)
\* C9: the delete of an existing artist (composer) is answered 200, removes
\* that row and no other row of any table; every song that referenced it is
\* still there with artist_id (composer_id) NULL and every other field as it
\* was, and every other song is as it was.
C9_DeleteSetsNull ==
  [][ \A p \in Procs, type \in {"artists", "composers"}, id \in Ids :
         Takes(p, "delete") /\ req'[p].type = type /\ req'[p].id = id
            /\ handleAdminDeletePerson(p, type, id) /\ Exists(type, id)
            => LET col == RefColumn(type)
               IN  /\ resp'[p].status = 200
                   /\ TableNext(type) = {r \in Table(type) : r.id /= id}
                   /\ \A t \in PersonTypes \ {type} : TableNext(t) = Table(t)
                   /\ Cardinality(songs') = Cardinality(songs)
                   /\ \A s \in songs :
                         IF s[col] = id
                         THEN [s EXCEPT ![col] = NULL] \in songs'
                         ELSE s \in songs'
    ]_vars

\* the composer the song 1 referenced is deleted, and the song is there
\* without the reference
C9_Witness ==
  \E p \in Procs :
     /\ req[p].kind = "delete" /\ req[p].type = "composers" /\ req[p].id = 1
     /\ resp[p].status = 200 /\ composers = {}
     /\ \E s \in songs : s.id = 1 /\ s.composer_id = NULL /\ s.title = Txt("A")


(***************************************************************************)
(* Scenario: view requests and admin requests on songs, handled            *)
(* concurrently.  One artist, whom no request touches, and one song.       *)
(***************************************************************************)
CountSlugs == {<<"a">>, <<"b">>}

InitCounts ==
  /\ songs = {SongRow(1, Txt("A"), Txt("a"), 1, NULL, NULL, Empty, Txt("x"), 0,
                      OthersStamp)}
  /\ artists = {PersonRow(1, Txt("A"), Txt("a"))}
  /\ composers = {} /\ copyright_owners = {}
  /\ seq = [songs |-> 1, artists |-> 1, composers |-> MaxId,
            copyright_owners |-> MaxId, reports |-> 0, contacts |-> 0]
  /\ reports = {} /\ contacts = {}
  /\ viewRateMap = <<>>
  /\ viewRateOthers = 0
  /\ neverSwept = <<>>
  /\ now = OthersStamp
  /\ pc = [p \in Procs |-> "idle"]
  /\ req = [p \in Procs |-> NoReq]
  /\ pending = [p \in Procs |-> {}]
  /\ resp = [p \in Procs |-> NoResp]

CountView(p) ==
  \E slug \in CountSlugs, header \in WindowHeaders :
     handleViewIncrement(p, slug, header)

NextCounts ==
  \E p \in Procs :
     \/ Return(p)
     \/ Returned(p) /\ CountView(p)
     \/ Returned(p) /\ incrementViews(p)
     \/ Returned(p) /\ AdminSong(p)
     \/ Returned(p) /\ GatewayFailure(p)

SpecCounts == InitCounts /\ [][NextCounts]_vars


(***************************************************************************)
(* C8                                                                      *)
(***************************************************************************)
\* C8: a new song starts with views 0 and an id no song had before; while a
\* song is stored its views never decrease; they change only by exactly +1,
\* in the step in which the UPDATE of a view request that passed the rate
\* limiter finds the slug of the song and the request is answered 200; an
\* admin update and every other step leave them as they are.
C8_ViewsMonotonic ==
  [][ /\ \A t \in songs' :
            IF \E s \in songs : s.id = t.id
            THEN \A s \in songs : s.id = t.id =>
                    \/ t.views = s.views
                    \/ /\ t.views = s.views + 1
                       /\ \E p \in Procs :
                             /\ ViewCounted(p) /\ req[p].slug = s.slug
                             /\ resp'[p].status = 200
            ELSE t.views = 0 /\ t.id > seq.songs
      /\ \A p \in Procs : pc[p] = "update" /\ updateSong(p) =>
            \A s \in songs : \A t \in songs' : t.id = s.id => t.views = s.views
    ]_vars

\* the song 1, which was viewed twice, has been given another slug by an
\* admin update and been viewed again
C8_Witness ==
  \E s \in songs : s.id = 1 /\ s.slug = Txt("b") /\ s.views = 3


(***************************************************************************)
(* GET /api/songs                                                          *)
(***************************************************************************)
DigitValue(c) ==
  CASE c = "0" -> 0 [] c = "1" -> 1 [] c = "2" -> 2 [] c = "3" -> 3
    [] c = "4" -> 4 [] c = "5" -> 5 [] c = "6" -> 6 [] c = "7" -> 7
    [] c = "8" -> 8 [] c = "9" -> 9

RECURSIVE ParseDigits(_)
ParseDigits(s) ==
  IF s = Empty THEN 0
  ELSE 10 * ParseDigits(SubSeq(s, 1, Len(s) - 1)) + DigitValue(s[Len(s)])

\* the number NaN: an integer that no text of the model parses to stands
\* for it, and every operation on numbers below treats it as JavaScript does
NaN == 0 - 999999

\* the longest prefix of s made of decimal digits
RECURSIVE DigitPrefix(_)
DigitPrefix(s) ==
  IF s = Empty \/ Head(s) \notin {"0", "1", "2", "3", "4", "5", "6", "7", "8", "9"}
  THEN Empty
  ELSE <<Head(s)>> \o DigitPrefix(Tail(s))

\* parseInt(s, 10): leading white space is skipped, a sign is optional, the
\* digits up to the first other character are the value; NaN without a digit
parseInt(s) ==
  LET t      == trimStart(s)
      signed == t /= Empty /\ Head(t) \in {"+", "-"}
      digits == DigitPrefix(IF signed THEN Tail(t) ELSE t)
  IN  IF digits = Empty THEN NaN
      ELSE IF signed /\ Head(t) = "-" THEN 0 - ParseDigits(digits)
      ELSE ParseDigits(digits)

\* Math.max and Math.min: NaN if an argument is NaN
MathMax(a, b) == IF a = NaN \/ b = NaN THEN NaN ELSE IF a >= b THEN a ELSE b
MathMin(a, b) == IF a = NaN \/ b = NaN THEN NaN ELSE IF a <= b THEN a ELSE b

DEFAULT_PAGE == <<"1">>
DEFAULT_LIMIT == <<"2", "0">>
LIMIT_MAX == 50
QUERY_MAX == 100

\* Math.max(1, parseInt(page || '1', 10))
PageOf(param) == MathMax(1, parseInt(IF param = Empty THEN DEFAULT_PAGE ELSE param))

\* Math.min(50, Math.max(1, parseInt(limit || '20', 10)))
LimitOf(param) ==
  MathMin(LIMIT_MAX,
          MathMax(1, parseInt(IF param = Empty THEN DEFAULT_LIMIT ELSE param)))

\* (q || '').trim().replace(/[<>"';]/g, '').substring(0, 100)
sanitizeQuery(q) ==
  LET kept == SelectSeq(trim(q), LAMBDA c : c \notin {"<", ">", "\"", "'", ";"})
  IN  SubSeq(kept, 1, MathMin(QUERY_MAX, Len(kept)))

ListReq(page, limit, category) ==
  [NoReq EXCEPT !.kind = "list", !.page = page, !.limit = limit,
                !.category = category]

\* handleGetSongs up to the two statements of getSongs, which Promise.all
\* starts together
handleGetSongs(p, page, limit, category) ==
  /\ pc[p] = "idle"
  /\ req' = [req EXCEPT ![p] = Calls(ListReq(PageOf(page), LimitOf(limit),
                                             sanitizeQuery(category)),
                                     <<Gateway("getSongs", "songs")>>)]
  /\ resp' = [resp EXCEPT ![p] = NoResp]
  /\ pc' = [pc EXCEPT ![p] = "list"]
  /\ pending' = [pending EXCEPT ![p] = {"count", "data"}]
  /\ UNCHANGED <<store, viewRateMap, viewRateOthers, neverSwept, now>>

\* WHERE s.category = ?, added only for a category
Matching(rows, category) ==
  IF category = Empty THEN rows ELSE {s \in rows : s.category = category}

\* the rows of a set in an order ORDER BY s.created_at DESC allows
RECURSIVE Orderings(_)
Orderings(rows) ==
  IF rows = {} THEN {<<>>}
  ELSE UNION {{<<r>> \o rest : rest \in Orderings(rows \ {r})} :
                r \in {n \in rows : \A o \in rows : n.created_at >= o.created_at}}

OffsetByPage(page, limit) ==
  IF page = NaN \/ limit = NaN THEN NaN ELSE page * limit
\* const offset = (page - 1) * limit
Offset(page, limit) ==
  IF page = NaN \/ limit = NaN THEN NaN ELSE (page - 1) * limit

\* LIMIT ? OFFSET ?
LimitOffset(rows, limit, offset) ==
  SubSeq(rows, offset + 1, MathMin(Len(rows), offset + limit))

\* the columns of SONG_LIST_COLS that are columns of songs
\* what the page statement may return for the bound limit and offset.  The
\* source does not say what D1 does with a NaN argument: the statement may
\* fail, or return any run of the ordered rows
BoundRows(rows, limit, offset) ==
  IF limit = NaN \/ offset = NaN
  THEN {SubSeq(rows, i, j) : i \in 1..(Len(rows) + 1), j \in 0..Len(rows)}
  ELSE {LimitOffset(rows, limit, offset)}

ListRow(s) ==
  [id |-> s.id, title |-> s.title, slug |-> s.slug, category |-> s.category,
   views |-> s.views, created_at |-> s.created_at, artist_id |-> s.artist_id,
   composer_id |-> s.composer_id, copyright_owner_id |-> s.copyright_owner_id]

ListRows(rows) == [i \in 1..Len(rows) |-> ListRow(rows[i])]

MathCeilFloor(a, b) == a \div b
\* Math.ceil(a / b) of a >= 0 and b >= 1
MathCeil(a, b) == IF b = NaN THEN NaN ELSE (a + b - 1) \div b

\* what getSongs returns once both statements are answered, as handleGetSongs
\* sends it
ListDone(p, r) ==
  [r EXCEPT !.status = 200, !.page = req[p].page,
            !.totalPages = MathCeil(r.total, req[p].limit)]

\* one of the two statements of slot p is answered; the second to be
\* answered completes getSongs
ListStep(p, stmt, r) ==
  /\ pending' = [pending EXCEPT ![p] = @ \ {stmt}]
  /\ IF pending[p] = {stmt}
     THEN /\ resp' = [resp EXCEPT ![p] = ListDone(p, r)]
          /\ pc' = [pc EXCEPT ![p] = "idle"]
     ELSE /\ resp' = [resp EXCEPT ![p] = r]
          /\ pc' = pc
  /\ UNCHANGED <<store, viewRateMap, viewRateOthers, neverSwept, now, req>>

\* SELECT COUNT(*) as total FROM songs s [WHERE s.category = ?]
countQuery(p) ==
  /\ pc[p] = "list" /\ "count" \in pending[p]
  /\ ListStep(p, "count",
       [resp[p] EXCEPT !.total = Cardinality(Matching(songs, req[p].category))])

\* SELECT .. [WHERE s.category = ?] ORDER BY s.created_at DESC LIMIT ? OFFSET ?
dataQuery(p) ==
  /\ pc[p] = "list" /\ "data" \in pending[p]
  /\ \E rows \in Orderings(Matching(songs, req[p].category)) :
       \E page \in BoundRows(rows, req[p].limit,
                              Offset(req[p].page, req[p].limit)) :
          ListStep(p, "data", [resp[p] EXCEPT !.songs = ListRows(page)])


(***************************************************************************)
(* Scenario: list requests, one at a time, on a store nothing writes.      *)
(* Songs 1 and 2 were created in the same second, as were songs 3 and 4;   *)
(* the songs with odd ids have the category "x", the others none.          *)
(***************************************************************************)
MaxSongs == 3

ListProcs == {"p1"}

ListSong(i) ==
  SongRow(i, Txt("A"), [k \in 1..i |-> "a"], NULL, NULL, NULL,
          IF i % 2 = 1 THEN Txt("x") ELSE Empty, Txt("x"), 0, (i + 1) \div 2)

PageParams ==
  {Empty, <<"0">>, <<"1">>, <<"2">>, <<"3">>, <<"-", "1">>, <<"x">>}
LimitParams == {Empty, <<"0">>, <<"1">>, <<"2">>, <<"5", "1">>, <<"x">>}
CategoryParams == {Empty, <<"x">>, <<" ", "x", "<">>, <<"b">>, <<";">>}

InitList ==
  /\ \E n \in 0..MaxSongs :
        /\ songs = {ListSong(i) : i \in 1..n}
        /\ seq = [songs |-> n, artists |-> 0, composers |-> 0,
                  copyright_owners |-> 0, reports |-> 0, contacts |-> 0]
  /\ reports = {} /\ contacts = {}
  /\ artists = {} /\ composers = {} /\ copyright_owners = {}
  /\ viewRateMap = <<>>
  /\ viewRateOthers = 0
  /\ neverSwept = <<>>
  /\ now = 1 + (MaxSongs + 1) \div 2
  /\ pc = [p \in ListProcs |-> "idle"]
  /\ req = [p \in ListProcs |-> NoReq]
  /\ pending = [p \in ListProcs |-> {}]
  /\ resp = [p \in ListProcs |-> NoResp]

ListStart(p) ==
  \E page \in PageParams, limit \in LimitParams, category \in CategoryParams :
     handleGetSongs(p, page, limit, category)

NextList ==
  \E p \in ListProcs :
     \/ ListStart(p)
     \/ countQuery(p)
     \/ dataQuery(p)
     \/ GatewayFailure(p)

SpecList == InitList /\ [][NextList]_vars


(***************************************************************************)
(* C10                                                                     *)
(***************************************************************************)
\* the sequences that hold every row of the set once, newest first
CreationDescending(rows) ==
  LET n == Cardinality(rows)
  IN  {f \in [1..n -> rows] :
         /\ \A i, j \in 1..n : i /= j => f[i] /= f[j]
         /\ \A i, j \in 1..n : i < j => f[i].created_at >= f[j].created_at}

\* the items at the positions (page-1)*limit .. page*limit-1, counted from 0
PageItems(order, page, limit) ==
  LET first == (page - 1) * limit
      idx   == {i \in 1..Len(order) : first <= i - 1 /\ i - 1 <= page * limit - 1}
  IN  [k \in 1..Cardinality(idx) |-> order[first + k]]

\* C10: on a store that does not change, a list request that getSongs
\* serves with page >= 1 and limit >= 1 is answered 200 with total the
\* number of songs matching the filter, totalPages the ceiling of
\* total / limit, the page echoed, the songs the items at the positions
\* (page-1)*limit .. page*limit-1 of a creation-descending ordering of the
\* matching songs, and no songs when page > totalPages.
C10_Pagination ==
  \A p \in DOMAIN pc :
     /\ req[p].kind = "list" /\ pc[p] = "idle" /\ resp[p].status /= 500
     /\ req[p].page /= NaN /\ req[p].limit /= NaN
     =>
        LET page     == req[p].page
            limit    == req[p].limit
            matching == Matching(songs, req[p].category)
            r        == resp[p]
        IN  /\ page >= 1 /\ limit >= 1
            /\ r.status = 200
            /\ r.total = Cardinality(matching)
            /\ r.totalPages * limit >= r.total
            /\ (r.totalPages - 1) * limit < r.total
            /\ r.totalPages >= 0
            /\ r.page = page
            /\ \E order \in CreationDescending(matching) :
                  /\ Len(r.songs) = Len(PageItems(order, page, limit))
                  /\ \A i \in 1..Len(r.songs) :
                        r.songs[i] = ListRow(PageItems(order, page, limit)[i])
            /\ page > r.totalPages => r.songs = <<>>

\* page 2 of limit 1 over the songs of the category "x", which are the songs
\* 1 and 3 of three: the older of the two
C10_Witness ==
  \E p \in DOMAIN pc :
     /\ req[p].kind = "list" /\ resp[p].status = 200
     /\ req[p].page = 2 /\ req[p].limit = 1 /\ req[p].category = Txt("x")
     /\ resp[p].total = 2 /\ resp[p].totalPages = 2
     /\ Len(resp[p].songs) = 1 /\ resp[p].songs[1].id = 1


(***************************************************************************)
(* C11                                                                     *)
(***************************************************************************)
\* C11: whatever the page and limit parameters of a list request are
\* (absent, empty, non-numeric, zero, negative, in range, too large), the
\* arguments handleGetSongs hands to getSongs are a page that is an integer
\* >= 1 and a limit that is an integer in 1..50.
C11_ListParamsClamped ==
  \A p \in DOMAIN pc :
     req[p].kind = "list" =>
        /\ req[p].page /= NaN /\ req[p].page >= 1
        /\ req[p].limit /= NaN /\ req[p].limit \in 1..LIMIT_MAX


(***************************************************************************)
(* Scenario: create and delete requests only, with bodies whose explicit   *)
(* slug differs from the slug their title or name generates.               *)
(***************************************************************************)
CreateSongBodies ==
  SongBodies \cup {SongBody(Txt("A"), <<" ", "b", " ">>, NULL, NULL, NULL)}

CreatePersonBodies ==
  PersonBodies \cup {PersonBody(Txt("A"), <<" ", "b", " ">>)}

CreateSong(p) ==
  \/ \E body \in CreateSongBodies :
        Refers(body) /\ handleAdminCreateSong(p, body)
  \/ createSong(p)
  \/ \E id \in Ids : handleAdminDeleteSong(p, id)

CreatePerson(p) ==
  \/ \E type \in PersonTypes, body \in CreatePersonBodies :
        Open(type) /\ handleAdminCreatePerson(p, type, body)
  \/ createPerson(p)
  \/ \E type \in PersonTypes, id \in Ids :
        Open(type) /\ handleAdminDeletePerson(p, type, id)

NextCreate ==
  \E p \in Procs :
     \/ Return(p)
     \/ Returned(p) /\ CreateSong(p)
     \/ Returned(p) /\ CreatePerson(p)
     \/ Returned(p) /\ GatewayFailure(p)

SpecCreate == Init /\ [][NextCreate]_vars


(***************************************************************************)
(* C12                                                                     *)
(***************************************************************************)
CreateBodies(type) ==
  IF type = "songs" THEN CreateSongBodies ELSE CreatePersonBodies

\* the title of a song body, the name of any other
TextOf(type, body) == IF type = "songs" THEN body.title ELSE body.name

\* C12: a create with a valid body without a slug (or with a blank one),
\* when no row of the type holds generateSlug(title/name), goes on to its
\* INSERT with that slug; when a row holds it (as after the same create was
\* answered 201) the create is answered 409; with an explicit slug that no
\* row holds it goes on to its INSERT with the trimmed explicit slug,
\* whoever holds the generated one.  The INSERT, unless the statement fails
\* (500, nothing stored), is answered 201 with the slug of the request and
\* the id the store assigned to the one row it added, which holds that slug.
C12_CreateDerivesSlug ==
  [][ \A p \in Procs :
        /\ Takes(p, "create") =>
              LET type == req'[p].type
              IN  \A body \in CreateBodies(type) :
                     CreateCalled(p, type, body) /\ ~Invalid(type, body)
                        => LET slug == IF Blank(body.slug)
                                       THEN generateSlug(TextOf(type, body))
                                       ELSE trim(body.slug)
                           IN  IF Holds(type, slug)
                               THEN resp'[p].status = 409 /\ store' = store
                               ELSE pc'[p] = "insert" /\ req'[p].slug = slug
        /\ pc[p] = "insert" /\ pc'[p] = "idle" =>
              LET type == req[p].type
              IN  IF resp'[p].status = 201
                  THEN /\ resp'[p].slug = req[p].slug
                       /\ ~Exists(type, resp'[p].id)
                       /\ \E row \in TableNext(type) :
                             /\ row.id = resp'[p].id /\ row.slug = req[p].slug
                             /\ TableNext(type) = Table(type) \cup {row}
                       /\ \A t \in AdminTypes \ {type} : TableNext(t) = Table(t)
                  ELSE resp'[p].status = 500 /\ store' = store
    ]_vars

\* a create of the song "A", which only bodies without a slug carry, was
\* answered 201 with the slug "a" and the id of the new row
C12_Witness ==
  \E p \in Procs :
     /\ req[p].kind = "create" /\ req[p].type = "songs"
     /\ resp[p].status = 201 /\ resp[p].slug = generateSlug(Txt("A"))
     /\ \E row \in songs :
           row.id = resp[p].id /\ row.slug = resp[p].slug /\ row.title = Txt("A")


(***************************************************************************)
(* Scenario: generateSlug applied to a text, and again to what it          *)
(* returned.  The texts are all strings up to MaxLen characters over a     *)
(* sample of printable ASCII: an upper-case and a lower-case letter, a     *)
(* digit, the underscore, the hyphen, the space and a punctuation mark.    *)
(***************************************************************************)
MaxLen == 4

RECURSIVE Texts(_)
Texts(n) ==
  IF n = 0 THEN {Empty}
  ELSE Texts(n - 1) \cup
       {Append(t, c) : t \in Texts(n - 1),
                       c \in {"A", "a", "1", "_", "-", " ", "!"}}

InitSlug ==
  /\ songs = {} /\ artists = {} /\ composers = {} /\ copyright_owners = {}
  /\ reports = {} /\ contacts = {}
  /\ seq = [songs |-> 0, artists |-> 0, composers |-> 0,
            copyright_owners |-> 0, reports |-> 0, contacts |-> 0]
  /\ viewRateMap = <<>>
  /\ viewRateOthers = 0
  /\ neverSwept = <<>>
  /\ now = OthersStamp
  /\ pc = [p \in ListProcs |-> "idle"]
  /\ \E text \in Texts(MaxLen) :
        req = [p \in ListProcs |-> [NoReq EXCEPT !.kind = "slug", !.slug = text]]
  /\ pending = [p \in ListProcs |-> {}]
  /\ resp = [p \in ListProcs |-> NoResp]

\* generateSlug(text) of the text of slot p: the text it started with, or
\* the slug the last call returned
Slugify(p) ==
  LET text == IF resp[p].status = 0 THEN req[p].slug ELSE resp[p].slug
  IN  /\ req[p].kind = "slug"
      /\ req' = [req EXCEPT ![p].slug = text]
      /\ resp' = [resp EXCEPT ![p] = [json(200) EXCEPT !.slug = generateSlug(text)]]
      /\ UNCHANGED <<store, viewRateMap, viewRateOthers, neverSwept, now, pc, pending>>

SpecSlug == InitSlug /\ [][\E p \in ListProcs : Slugify(p)]_vars


(***************************************************************************)
(* C13                                                                     *)
(***************************************************************************)
\* C13: for every text s over the printable-ASCII sample, up to MaxLen
\* characters, generateSlug(generateSlug(s)) = generateSlug(s): the slug a
\* call returned is the slug the call on that slug returns.
C13_SlugIdempotent ==
  \A p \in DOMAIN pc :
     req[p].kind = "slug" =>
        /\ generateSlug(generateSlug(req[p].slug)) = generateSlug(req[p].slug)
        /\ resp[p].status = 200 =>
              /\ resp[p].slug = generateSlug(req[p].slug)
              /\ generateSlug(resp[p].slug) = resp[p].slug

\* the text "-_A!" gave the slug "a"
C13_Witness ==
  \E p \in DOMAIN pc :
     /\ req[p].kind = "slug" /\ resp[p].status = 200
     /\ req[p].slug = <<"-", "_", "A", "!">> /\ resp[p].slug = <<"a">>


(***************************************************************************)
(* Reports and contact messages.  A body holds what handleCreateContact    *)
(* reads (name, email, subject, message, turnstile_token);                 *)
(* handleCreateReport reads the same under the names reporter_name,        *)
(* reporter_email and body, and song_slug and song_title, which the body   *)
(* holds as slug and title, and song_artist.                               *)
(***************************************************************************)
SubmitTypes == {"reports", "contacts"}

\* the call of the verification service with a token
Siteverify(token) == [op |-> "siteverify", table |-> "none", token |-> token]

\* handleCreateReport / handleCreateContact up to the await of the
\* verification service; request.json() is not in a try block
handleCreateSubmission(p, type, body) ==
  LET r == [NoReq EXCEPT !.kind = "submit", !.type = type, !.body = body]
      Part(s) == /\ s /= Empty
                 /\ \A i \in 1..Len(s) : ~IsSpace(s[i]) /\ s[i] /= "@"
      \* /^[^\s@]+@[^\s@]+\.[^\s@]+$/.test(email)
      ValidEmail(email) ==
        \E at \in 1..Len(email), dot \in 1..Len(email) :
           /\ at < dot /\ email[at] = "@" /\ email[dot] = "."
           /\ Part(SubSeq(email, 1, at - 1))
           /\ Part(SubSeq(email, at + 1, dot - 1))
           /\ Part(SubSeq(email, dot + 1, Len(email)))
  IN  /\ pc[p] = "idle"
      /\ UNCHANGED <<store, viewRateMap, viewRateOthers, neverSwept, now>>
      /\ IF ~body.json THEN Respond(p, r, ServerError)
         ELSE IF body.name = Empty \/ body.email = Empty \/ body.message = Empty
              THEN Respond(p, r, json(400))
         ELSE IF ~ValidEmail(body.email) THEN Respond(p, r, json(400))
         ELSE IF body.turnstile_token = Empty THEN Respond(p, r, json(400))
         ELSE Await(p, Calls(r, <<Siteverify(body.turnstile_token)>>), "verify")

\* what the fetch of the verification service can come to: the promise is
\* rejected (network error), or a response arrives, with a status that is
\* ok (2xx) or not and a body that is JSON or not, with success true or not
Answers ==
  {[rejected |-> TRUE, ok |-> FALSE, json |-> FALSE, success |-> FALSE]} \cup
  {a \in [rejected : {FALSE}, ok : BOOLEAN, json : BOOLEAN, success : BOOLEAN] :
     a.success => a.json}

siteverifyLenient(p, answer) ==
  /\ pc[p] = "verify"
  /\ UNCHANGED <<store, viewRateMap, viewRateOthers, neverSwept, now>>
  /\ IF answer.rejected \/ ~answer.json
     THEN Respond(p, req[p], [json(500) EXCEPT
                                !.error = "Verification service unavailable."])
     ELSE Await(p, Calls(req[p], Append(req[p].calls,
                                        Gateway("create", req[p].type))),
                "insert")
\* the try block of handleCreateReport / handleCreateContact from the answer
\* of the verification service on, up to the await of the INSERT
siteverify(p, answer) ==
  /\ pc[p] = "verify"
  /\ UNCHANGED <<store, viewRateMap, viewRateOthers, neverSwept, now>>
  /\ IF answer.rejected \/ ~answer.json
     THEN Respond(p, req[p], [json(500) EXCEPT
                                !.error = "Verification service unavailable."])
     ELSE IF ~answer.success THEN Respond(p, req[p], json(403))
     ELSE Await(p, Calls(req[p], Append(req[p].calls,
                                        Gateway("create", req[p].type))),
                "insert")

\* the INSERT of createReport / createContact and the rest of the handler
createSubmission(p) ==
  /\ pc[p] = "insert" /\ req[p].type \in SubmitTypes
  /\ seq[req[p].type] < MaxId
  /\ LET type == req[p].type
         id   == seq[type] + 1
         body == req[p].body
         \* INSERT INTO reports (song_slug, song_title, song_artist,
         \* reporter_name, reporter_email, body), the first three with
         \* `|| null` (Empty); status gets its default, 'pending'
         report ==
           [id |-> id, song_slug |-> body.slug, song_title |-> body.title,
            song_artist |-> body.song_artist, reporter_name |-> body.name,
            reporter_email |-> body.email, body |-> body.message,
            status |-> <<"p", "e", "n", "d", "i", "n", "g">>]
         \* INSERT INTO contacts (name, email, subject, message), with
         \* subject || 'General'
         contact ==
           [id |-> id, name |-> body.name, email |-> body.email,
            subject |-> IF body.subject = Empty
                        THEN <<"G", "e", "n", "e", "r", "a", "l">>
                        ELSE body.subject,
            message |-> body.message]
     IN  /\ reports' = IF type = "reports" THEN reports \cup {report} ELSE reports
         /\ contacts' = IF type = "contacts" THEN contacts \cup {contact}
                        ELSE contacts
         /\ seq' = [seq EXCEPT ![type] = id]
         /\ Respond(p, req[p], [json(201) EXCEPT !.id = id])
  /\ UNCHANGED <<songs, artists, composers, copyright_owners, viewRateMap,
                 viewRateOthers, neverSwept, now>>

\* handleUpdateReportStatus up to its second await; request.json() is not in
\* a try block
handleUpdateReportStatus(p, id, body) ==
  LET r == [NoReq EXCEPT !.kind = "status", !.type = "reports", !.id = id,
                         !.body = body]
  IN  /\ pc[p] = "idle"
      /\ UNCHANGED <<store, viewRateMap, viewRateOthers, neverSwept, now>>
      /\ IF ~body.json THEN Respond(p, r, ServerError)
         ELSE IF body.status = Empty THEN Respond(p, r, json(400))
         ELSE Await(p, Calls(r, <<Gateway("update", "reports")>>), "update")

updateReportStatusRewrites(p) ==
  /\ pc[p] = "update" /\ req[p].type = "reports"
  /\ reports' = {IF r.id = req[p].id
                 THEN [r EXCEPT !.status = req[p].body.status, !.song_title = Empty]
                 ELSE r : r \in reports}
  /\ IF \E r \in reports : r.id = req[p].id
     THEN Respond(p, req[p], json(200))
     ELSE Respond(p, req[p], json(404))
  /\ UNCHANGED <<songs, artists, composers, copyright_owners, contacts, seq,
                 viewRateMap, viewRateOthers, neverSwept, now>>
\* UPDATE reports SET status = ? WHERE id = ? and the rest of the handler
updateReportStatus(p) ==
  /\ pc[p] = "update" /\ req[p].type = "reports"
  /\ reports' = {IF r.id = req[p].id THEN [r EXCEPT !.status = req[p].body.status]
                 ELSE r : r \in reports}
  /\ IF \E r \in reports : r.id = req[p].id
     THEN Respond(p, req[p], json(200))
     ELSE Respond(p, req[p], json(404))
  /\ UNCHANGED <<songs, artists, composers, copyright_owners, contacts, seq,
                 viewRateMap, viewRateOthers, neverSwept, now>>

\* handleDeleteReport with DELETE FROM reports WHERE id = ?
handleDeleteReport(p, id) ==
  LET r == Calls([NoReq EXCEPT !.kind = "delete", !.type = "reports", !.id = id],
                 <<Gateway("delete", "reports")>>)
  IN  /\ pc[p] = "idle"
      /\ reports' = Deleted(reports, id)
      /\ IF \E x \in reports : x.id = id
         THEN Respond(p, r, json(200))
         ELSE Respond(p, r, json(404))
      /\ UNCHANGED <<songs, artists, composers, copyright_owners, contacts, seq,
                     viewRateMap, viewRateOthers, neverSwept, now>>

(***************************************************************************)
(* GET /api/search?q=                                                      *)
(***************************************************************************)
SEARCH_LIMIT == 30

handleSearchLate(p, q) ==
  LET r == Calls([NoReq EXCEPT !.kind = "search", !.q = sanitizeQuery(q)],
                 <<Gateway("searchSongs", "songs")>>)
  IN  /\ pc[p] = "idle"
      /\ UNCHANGED <<store, viewRateMap, viewRateOthers, neverSwept, now>>
      /\ IF r.q = Empty THEN Respond(p, r, json(400)) ELSE Await(p, r, "search")
\* handleSearch up to its await
handleSearch(p, q) ==
  LET r == [NoReq EXCEPT !.kind = "search", !.q = sanitizeQuery(q)]
  IN  /\ pc[p] = "idle"
      /\ UNCHANGED <<store, viewRateMap, viewRateOthers, neverSwept, now>>
      /\ IF r.q = Empty THEN Respond(p, r, json(400))
         ELSE Await(p, Calls(r, <<Gateway("searchSongs", "songs")>>), "search")

\* the rows of a set in an order ORDER BY s.views DESC allows
RECURSIVE ViewOrderings(_)
ViewOrderings(rows) ==
  IF rows = {} THEN {<<>>}
  ELSE UNION {{<<r>> \o rest : rest \in ViewOrderings(rows \ {r})} :
                r \in {n \in rows : \A o \in rows : n.views >= o.views}}

\* SELECT .. WHERE s.title LIKE ? OR a.name LIKE ? ORDER BY s.views DESC
\* LIMIT ? and the rest of handleSearch
searchSongs(p) ==
  /\ pc[p] = "search"
  /\ UNCHANGED <<store, viewRateMap, viewRateOthers, neverSwept, now>>
  /\ LET \* text LIKE '%q%' for a q without '%': q matches at some place of
         \* the text, letters whatever their case and '_' any one character
         Like(text, q) ==
           \E at \in 0..(Len(text) - Len(q)) :
              \A i \in 1..Len(q) :
                 \/ q[i] = "_"
                 \/ toLowerCase(<<q[i]>>) = toLowerCase(<<text[at + i]>>)
         found == {s \in songs :
                     \/ Like(s.title, req[p].q)
                     \/ \E a \in artists : a.id = s.artist_id /\ Like(a.name, req[p].q)}
     IN  \E rows \in ViewOrderings(found) :
            LET results == ListRows(LimitOffset(rows, SEARCH_LIMIT, 0))
            IN  Respond(p, req[p], [json(200) EXCEPT !.songs = results,
                                                     !.total = Len(results)])

(***************************************************************************)
(* OPTIONS                                                                 *)
(***************************************************************************)
PreflightRouted(p, path) ==
  /\ pc[p] = "idle"
  /\ Respond(p, Calls([NoReq EXCEPT !.kind = "options", !.type = path],
                      <<Gateway("getSongs", "songs")>>),
             [NoResp EXCEPT !.status = 200])
  /\ UNCHANGED <<store, viewRateMap, viewRateOthers, neverSwept, now>>
\* if (method === 'OPTIONS') return new Response(null, {headers}), before the
\* try block and the routes
Preflight(p, path) ==
  /\ pc[p] = "idle"
  /\ Respond(p, [NoReq EXCEPT !.kind = "options", !.type = path],
             [NoResp EXCEPT !.status = 200])
  /\ UNCHANGED <<store, viewRateMap, viewRateOthers, neverSwept, now>>


(***************************************************************************)
(* Scenario: the Worker takes one request at a time, of every route of the *)
(* model and with method OPTIONS.  The store starts with one song and one  *)
(* artist; the sequences of composers and copyright owners are used up.    *)
(***************************************************************************)
InitWorker ==
  /\ InitStore /\ artists /= {}
  /\ viewRateMap = <<>>
  /\ viewRateOthers = 0
  /\ neverSwept = <<>>
  /\ now = OthersStamp
  /\ pc = [p \in ListProcs |-> "idle"]
  /\ req = [p \in ListProcs |-> NoReq]
  /\ pending = [p \in ListProcs |-> {}]
  /\ resp = [p \in ListProcs |-> NoResp]

NextWorker ==
  LET \* a report on the song of the store (a contact message has no use
      \* for the three song fields)
      valid == [NoBody EXCEPT !.slug = Txt("a"), !.title = Txt("A"),
                              !.song_artist = Txt("A"),
                              !.name = Txt("A"),
                              !.email = <<"a", "@", "b", ".", "c">>,
                              !.message = Txt("x"),
                              !.turnstile_token = Txt("t")]
      song  == SongBody(Txt("A"), Empty, NULL, NULL, NULL)
      bad   == [NoBody EXCEPT !.json = FALSE]
      \* the bodies of the requests of the scenario
      SubmitBodies ==
        {valid, [valid EXCEPT !.turnstile_token = Txt("u")],
         [valid EXCEPT !.name = Empty], [valid EXCEPT !.message = Empty],
         [valid EXCEPT !.email = <<"a", "@", "b">>],
         [valid EXCEPT !.turnstile_token = Empty], bad}
      StatusBodies == {[NoBody EXCEPT !.status = Txt("r")], NoBody, bad}
      \* the composer of the second body is a row that does not exist
      WorkerSongBodies ==
        {song, [song EXCEPT !.composer_id = 1],
         SongBody(<<" ">>, Txt("a"), NULL, NULL, NULL),
         [song EXCEPT !.lyrics = Empty], bad}
      WorkerPersonBodies ==
        {PersonBody(Txt("A"), Empty), PersonBody(<<" ">>, Txt("a")), bad}
      \* the paths of the requests with method OPTIONS, by the table of
      \* their route
      Paths == {"songs", "artists", "reports", "contacts", "view", "none"}
  IN
  \E p \in ListProcs :
     \/ \E path \in Paths : Preflight(p, path)
     \/ \E slug \in {Empty, Txt("a")} : handleViewIncrement(p, slug, Empty)
     \/ incrementViews(p)
     \/ \E q \in {Empty, Txt("a"), Txt(";")} : handleSearch(p, q)
     \/ searchSongs(p)
     \/ handleGetSongs(p, Empty, Empty, Empty)
     \/ countQuery(p)
     \/ dataQuery(p)
     \/ \E body \in WorkerSongBodies : handleAdminCreateSong(p, body)
     \/ createSong(p)
     \/ \E id \in Ids, body \in WorkerSongBodies : handleAdminUpdateSong(p, id, body)
     \/ updateSong(p)
     \/ \E id \in Ids : handleAdminDeleteSong(p, id)
     \/ \E type \in PersonTypes, body \in WorkerPersonBodies :
           handleAdminCreatePerson(p, type, body)
     \/ createPerson(p)
     \/ \E type \in PersonTypes, id \in Ids, body \in WorkerPersonBodies :
           handleAdminUpdatePerson(p, type, id, body)
     \/ updatePerson(p)
     \/ \E type \in PersonTypes, id \in Ids :
           handleAdminDeletePerson(p, type, id)
     \/ \E type \in SubmitTypes, body \in SubmitBodies :
           handleCreateSubmission(p, type, body)
     \/ \E answer \in Answers : siteverify(p, answer)
     \/ createSubmission(p)
     \/ \E id \in Ids, body \in StatusBodies : handleUpdateReportStatus(p, id, body)
     \/ updateReportStatus(p)
     \/ \E id \in Ids : handleDeleteReport(p, id)
     \/ GatewayFailure(p)

SpecWorker == InitWorker /\ [][NextWorker]_vars


(***************************************************************************)
(* C14                                                                     *)
(***************************************************************************)
\* the rows of a moderation table after the step
SubmittedNext(type) == IF type = "reports" THEN reports' ELSE contacts'

Submitted(type) == IF type = "reports" THEN reports ELSE contacts

\* in this step the table gets a row under an id it did not hold
Persists(type) ==
  \E row \in SubmittedNext(type) : \A old \in Submitted(type) : old.id /= row.id

\* C14: a report or contact row is persisted only by the INSERT of a
\* submission whose one call of the verification service, made with the
\* token of that request, was answered success = true; an answer with
\* success false gives 403 and persists nothing; after success = true the
\* INSERT, unless it fails, adds exactly one row and the answer is 201.
C14_VerifiedBeforePersist ==
  [][ \A p \in ListProcs :
        /\ (\E type \in SubmitTypes : Persists(type)) =>
              /\ pc[p] = "insert" /\ req[p].kind = "submit"
              /\ Persists(req[p].type)
        /\ pc'[p] = "insert" /\ req'[p].kind = "submit" =>
              /\ pc[p] = "verify"
              /\ req[p].calls = <<Siteverify(req[p].body.turnstile_token)>>
              /\ req[p].body.turnstile_token /= Empty
              /\ \E answer \in Answers : siteverify(p, answer)
              /\ \A answer \in Answers : siteverify(p, answer) => answer.success
        /\ pc[p] = "verify" =>
              \A answer \in Answers :
                 answer.json /\ ~answer.success /\ siteverify(p, answer)
                    => resp'[p].status = 403 /\ store' = store
        /\ pc[p] = "insert" /\ req[p].kind = "submit" /\ pc'[p] = "idle" =>
              LET type == req[p].type
              IN  IF resp'[p].status = 201
                  THEN /\ \E row \in SubmittedNext(type) :
                             /\ row.id = resp'[p].id
                             /\ \A old \in Submitted(type) : old.id /= row.id
                             /\ SubmittedNext(type) = Submitted(type) \cup {row}
                       /\ \A t \in SubmitTypes \ {type} :
                             SubmittedNext(t) = Submitted(t)
                  ELSE resp'[p].status = 500 /\ store' = store
    ]_vars

\* a report sent with the token "u" was answered 201 and is the second row
\* of the table
C14_Witness ==
  \E p \in ListProcs :
     /\ req[p].kind = "submit" /\ req[p].type = "reports"
     /\ resp[p].status = 201 /\ resp[p].id = 2
     /\ req[p].calls = <<Siteverify(Txt("u")), Gateway("create", "reports")>>
     /\ \E row \in reports : row.id = 2 /\ row.reporter_name = Txt("A")


(***************************************************************************)
(* C15                                                                     *)
(***************************************************************************)
\* the calls of the verification service among the calls of a request
Attempts(r) == {i \in 1..Len(r.calls) : r.calls[i].op = "siteverify"}

\* C15: when the call of the verification service is rejected (network
\* error) or comes back with a status that is not a success, the submission
\* is answered 500 or 502, nothing is persisted, and the request has made
\* exactly one call of the service.
C15_VerificationUnavailable ==
  [][ \A p \in ListProcs :
        pc[p] = "verify" =>
           \A answer \in Answers :
              (answer.rejected \/ ~answer.ok) /\ siteverify(p, answer)
                 => /\ resp'[p].status \in {500, 502}
                    /\ store' = store
                    /\ Cardinality(Attempts(req'[p])) = 1
    ]_vars


(***************************************************************************)
(* C16                                                                     *)
(***************************************************************************)
\* C16: a request whose body is not valid JSON, to the create or the update
\* of a song, artist, composer or copyright owner, to the submission of a
\* report or of a contact message, or to the status update of a report, is
\* answered 400 with an error and leaves the store as it was.
C16_MalformedBodyBadRequest ==
  [][ \A p \in ListProcs :
        pc[p] = "idle" /\ resp'[p].status /= 0 =>
           LET bad == [NoBody EXCEPT !.json = FALSE]
           IN  (\/ handleAdminCreateSong(p, bad)
                \/ \E id \in Ids : handleAdminUpdateSong(p, id, bad)
                \/ \E type \in PersonTypes : handleAdminCreatePerson(p, type, bad)
                \/ \E type \in PersonTypes, id \in Ids :
                      handleAdminUpdatePerson(p, type, id, bad)
                \/ \E type \in SubmitTypes : handleCreateSubmission(p, type, bad)
                \/ \E id \in Ids : handleUpdateReportStatus(p, id, bad))
               => /\ resp'[p].status = 400 /\ resp'[p].error /= ""
                  /\ store' = store
    ]_vars


(***************************************************************************)
(* C17                                                                     *)
(***************************************************************************)
\* in this step slot p answers a request with this status
AnswersWith(p, status) ==
  /\ resp'[p].status = status
  /\ resp'[p] /= resp[p] \/ req'[p] /= req[p] \/ pc[p] /= "idle"

\* C17: a request that is answered 400 is answered in the first step of its
\* handler, having made no call of the Gateway or of the verification
\* service, and leaves the store and the rate-limit map as they were.
C17_ValidationLocal ==
  [][ \A p \in ListProcs :
         AnswersWith(p, 400) =>
            /\ pc[p] = "idle"
            /\ req'[p].calls = <<>>
            /\ store' = store
            /\ viewRateMap' = viewRateMap /\ viewRateOthers' = viewRateOthers
    ]_vars

\* a submission is answered 400 while the tables hold a report and the map
\* an entry
C17_Witness ==
  \E p \in ListProcs :
     /\ req[p].kind = "submit" /\ resp[p].status = 400 /\ req[p].calls = <<>>
     /\ reports /= {} /\ viewRateMap /= <<>>


(***************************************************************************)
(* C18                                                                     *)
(***************************************************************************)
\* in this step something raises in slot p that no handler catches: a
\* Gateway call fails, a statement violates a constraint, or request.json()
\* outside a try block meets a body that is not JSON
Uncaught(p) ==
  \/ GatewayFailure(p)
  \/ /\ pc[p] = "insert" /\ req[p].type = "songs"
     /\ ~SongConstraintsOk(req[p].body, req[p].slug, 0) /\ createSong(p)
  \/ /\ pc[p] = "update" /\ req[p].type = "songs" /\ Exists("songs", req[p].id)
     /\ ~SongConstraintsOk(req[p].body, req[p].slug, req[p].id) /\ updateSong(p)
  \/ /\ pc[p] = "insert" /\ req[p].type \in PersonTypes
     /\ PersonSlugTaken(req[p].type, req[p].slug, 0) /\ createPerson(p)
  \/ /\ pc[p] = "update" /\ req[p].type \in PersonTypes
     /\ Exists(req[p].type, req[p].id)
     /\ PersonSlugTaken(req[p].type, req[p].slug, req[p].id) /\ updatePerson(p)
  \/ /\ pc[p] = "idle" /\ resp'[p].status /= 0
     /\ LET bad == [NoBody EXCEPT !.json = FALSE]
        IN  \/ \E type \in SubmitTypes : handleCreateSubmission(p, type, bad)
            \/ \E id \in Ids : handleUpdateReportStatus(p, id, bad)

\* in this step the call of the verification service raises in slot p (the
\* fetch is rejected, or the body of the response is not JSON)
VerificationRaises(p) ==
  /\ pc[p] = "verify"
  /\ \E answer \in Answers :
        (answer.rejected \/ ~answer.json) /\ siteverify(p, answer)

\* the request of slot p is answered in this step, once and without a further
\* call, and the store and the rate-limit map stay as the request left them
AnsweredOnce(p) ==
  /\ pc'[p] = "idle"
  /\ req'[p].calls = IF pc[p] = "idle" THEN <<>> ELSE req[p].calls
  /\ store' = store
  /\ viewRateMap' = viewRateMap /\ viewRateOthers' = viewRateOthers

\* C18 as stated: whatever raises while a request is handled, a Gateway call
\* or any other step, the request is answered once, 500 with the error
\* 'Internal server error', without a retry and without a rollback.
C18_AnyRaiseInternalError ==
  [][ \A p \in ListProcs :
         Uncaught(p) \/ VerificationRaises(p)
            => resp'[p] = ServerError /\ AnsweredOnce(p)
    ]_vars

\* C18, amended: what raises and no handler catches (a Gateway call that
\* fails, a constraint violation, a body that is not JSON read outside a try
\* block) is answered once by the Dispatcher, 500 with the error 'Internal
\* server error', without a retry and without a rollback; what the call of
\* the verification service raises is caught by the handler, which answers
\* once, 500 with the error 'Verification service unavailable.'; and no
\* other step answers 500.
C18_UncaughtInternalError ==
  [][ \A p \in ListProcs :
        /\ Uncaught(p) => resp'[p] = ServerError /\ AnsweredOnce(p)
        /\ VerificationRaises(p) =>
              /\ resp'[p] = [json(500) EXCEPT
                               !.error = "Verification service unavailable."]
              /\ AnsweredOnce(p)
        /\ AnswersWith(p, 500) => Uncaught(p) \/ VerificationRaises(p)
    ]_vars

\* the view of the song "a" was recorded by the rate limiter, the UPDATE
\* failed, and the request is answered 500: the entry is still in the map
C18_Witness ==
  \E p \in ListProcs :
     /\ req[p].kind = "view" /\ resp[p] = ServerError
     /\ req[p].calls = <<Gateway("incrementViews", "songs")>>
     /\ viewRateMap /= <<>>
     /\ \A s \in songs : s.views = 0


(***************************************************************************)
(* C19                                                                     *)
(***************************************************************************)
\* C19: a request with method OPTIONS, whatever its path, is answered in one
\* step with the preflight response, status 200, having made no call, and
\* leaves the store and the rate-limit map as they were.
C19_PreflightShortCircuit ==
  [][ \A p \in ListProcs :
         Takes(p, "options") =>
            /\ pc'[p] = "idle"
            /\ resp'[p] = [NoResp EXCEPT !.status = 200]
            /\ req'[p].calls = <<>>
            /\ store' = store
            /\ viewRateMap' = viewRateMap /\ viewRateOthers' = viewRateOthers
    ]_vars

\* OPTIONS on the path of the reports, which the routes would take for a
\* submission, is answered while the tables hold rows
C19_Witness ==
  \E p \in ListProcs :
     /\ req[p].kind = "options" /\ req[p].type = "reports"
     /\ resp[p].status = 200 /\ req[p].calls = <<>>
     /\ reports /= {} /\ songs /= {}


(***************************************************************************)
(* C20                                                                     *)
(***************************************************************************)
\* C20: the delete of id X of a type, when a row of the type has the id X,
\* is answered 200 and removes that row and no other row of the type; when
\* no row has it, it is answered 404 and leaves the store as it was.  After
\* either, no row of the type has the id X, and no later step gives it to a
\* row (ids are at most the sequence of the type, new rows get ids above it,
\* and the sequence never goes back), so a second delete of X is answered
\* 404.
C20_AdminDelete ==
  [][ /\ \A p \in Procs :
            Takes(p, "delete") =>
               LET type == req'[p].type
                   id   == req'[p].id
               IN  /\ IF Exists(type, id)
                      THEN /\ resp'[p].status = 200
                           /\ TableNext(type) = {r \in Table(type) : r.id /= id}
                      ELSE resp'[p].status = 404 /\ store' = store
                   /\ ~\E r \in TableNext(type) : r.id = id
      /\ \A type \in AdminTypes :
            /\ \A r \in Table(type) : r.id <= seq[type]
            /\ \A r \in TableNext(type) : ~Exists(type, r.id) => r.id > seq[type]
            /\ seq'[type] >= seq[type]
    ]_vars

\* the song 1 was deleted, and its second delete is answered 404 while the
\* song 2 is there
C20_Witness ==
  \E p \in Procs :
     /\ req[p].kind = "delete" /\ req[p].type = "songs" /\ req[p].id = 1
     /\ resp[p].status = 404
     /\ ~Exists("songs", 1) /\ Exists("songs", 2) /\ seq.songs = 2




(***************************************************************************)
(* C21                                                                     *)
(***************************************************************************)
\* C21: a persisted report keeps its song_slug, song_title, song_artist,
\* reporter name and email and body through every step (song update or
\* delete, artist or composer delete, status update, ...); its status
\* changes only in the UPDATE of a report status request for its id, to the
\* status of that request; a persisted contact message never changes
C21_SnapshotsImmutable ==
  [][/\ \A r \in reports : \A s \in reports' :
           r.id = s.id =>
             /\ [s EXCEPT !.status = r.status] = r
             /\ s.status /= r.status =>
                  \E p \in ListProcs :
                     /\ pc[p] = "update" /\ req[p].kind = "status"
                     /\ req[p].id = r.id /\ s.status = req[p].body.status
                     /\ resp'[p].status = 200
     /\ \A c \in contacts : \A d \in contacts' : c.id = d.id => c = d]_vars

\* a report on song "a" is still what was submitted, with a new status,
\* after the song and its artist were deleted; a contact message is kept
C21_Witness ==
  /\ \E r \in reports :
        /\ r.song_slug = Txt("a") /\ r.song_title = Txt("A")
        /\ r.song_artist = Txt("A") /\ r.body = Txt("x")
        /\ r.status = Txt("r")
  /\ songs = {} /\ artists = {}
  /\ contacts /= {}


(***************************************************************************)
(* C22                                                                     *)
(***************************************************************************)
\* C22: when the INSERT of a create or the UPDATE of an update runs after
\* another request gave a different row of the same type the same slug (the
\* probe was overtaken), the request is answered with the 409 conflict
\* response and the store is left as it is; it is never answered 500.
C22_ConcurrentConflict ==
  [][ \A p \in Procs :
         /\ pc[p] \in {"insert", "update"}
         /\ req[p].kind \in {"create", "update"}
         /\ \E r \in Table(req[p].type) :
               r.slug = req[p].slug /\ r.id /= req[p].id
         /\ createSong(p) \/ createPerson(p) \/ UpdateRan(p)
         => resp'[p].status = 409 /\ store' = store
    ]_vars


(***************************************************************************)
(* C23                                                                     *)
(***************************************************************************)
\* C23: at the end of every call of the rate limiter that accepts, a Map of
\* more than 5,000 entries holds no entry older than the window, and the
\* size of the Map is at most the larger of 5,000 and the number of pairs
\* accepted within the last window (the pair of the call among them); a
\* call that rejects leaves the Map as it is.
C23_OpportunisticCleanup ==
  [][ \A p \in DOMAIN pc :
         /\ pc[p] = "idle" /\ pc'[p] = "incr" =>
              LET recent == {k \in DOMAIN viewRateMap : Age(k) <= RATE_LIMIT_MS}
                               \cup {RateKey(req'[p].slug, req'[p].ip)}
                  others == IF now - OthersStamp <= RATE_LIMIT_MS
                            THEN viewRateOthers ELSE 0
                  size   == MapSize(viewRateMap', viewRateOthers')
              IN  /\ size > MAP_SWEEP_SIZE =>
                       /\ \A k \in DOMAIN viewRateMap' :
                             now - viewRateMap'[k] <= RATE_LIMIT_MS
                       /\ viewRateOthers' > 0 => now - OthersStamp <= RATE_LIMIT_MS
                  /\ size <= MathMax(MAP_SWEEP_SIZE, Cardinality(recent) + others)
         /\ ViewCalled(p, req'[p].slug, req'[p].ip) /\ resp'[p].status = 429
            => viewRateMap' = viewRateMap /\ viewRateOthers' = viewRateOthers
    ]_vars

\* a call was accepted with the Map above 5,000 entries and the sweep ran:
\* a view of song "a" was counted, its entry and the 4,999 entries of other
\* pairs, all older than the window, are gone, and the entry of the call
\* is there
C23_Witness ==
  /\ \E s \in songs : s.slug = Txt("a") /\ s.views = RaceViews0(s.id) + 1
  /\ \E p \in DOMAIN pc :
        /\ pc[p] = "incr"
        /\ DOMAIN viewRateMap = {RateKey(req[p].slug, req[p].ip)}
        /\ req[p].slug = Txt("c")
  /\ viewRateOthers = 0


(***************************************************************************)
(* C24                                                                     *)
(***************************************************************************)
\* C24: a view request without the proxy header counts as the client
\* "unknown": it is answered 429, whichever slot takes it, exactly while a
\* request without the header was accepted for the same slug less than one
\* window ago; a request with a header value is answered 429 exactly while
\* a request with that value was accepted for the slug less than one window
\* ago, so neither the header-less views of the slug touch it nor do the
\* header-less views of one slug touch those of another.
C24_SharedFallback ==
  [][ \A p \in DOMAIN pc :
         pc[p] = "idle" /\ req'[p].kind = "view" =>
            \A slug \in WindowSlugs, header \in WindowHeaders :
               handleViewIncrement(p, slug, header) =>
                  LET client == IF header = Empty THEN Unknown ELSE header
                      recent == /\ RateKey(slug, client) \in DOMAIN viewRateMap
                                /\ Age(RateKey(slug, client)) < RATE_LIMIT_MS
                  IN  IF recent THEN resp'[p].status = 429 /\ pc'[p] = "idle"
                      ELSE pc'[p] = "incr" /\ req'[p].ip = client
    ]_vars

\* within one window and after a header-less view of song "a" was accepted,
\* a header-less request for "a" in one slot is answered 429 and a request
\* for "a" with the header value "1" in the other slot is counted
C24_Witness ==
  /\ now = OthersStamp
  /\ req["p1"].slug = Txt("a") /\ req["p1"].ip = Unknown
  /\ resp["p1"].status = 429
  /\ req["p2"].slug = Txt("a") /\ req["p2"].ip = Txt("1")
  /\ resp["p2"].status = 200
  /\ \E s \in songs : s.slug = Txt("a") /\ s.views = RaceViews0(s.id) + 2
  /\ RateKey(Txt("c"), Unknown) \notin DOMAIN viewRateMap


(***************************************************************************)
(* C25                                                                     *)
(***************************************************************************)
\* C25: of the view requests of one client for one slug that are in flight
\* at once within one window, in any interleaving of their steps, at most
\* one passes the rate limiter (awaits its UPDATE or was answered by it),
\* the others are answered 429, and the views counter of a song stands at
\* most as many higher than at the start as distinct clients asked for it.
C25_NoDoubleCount ==
  \A slug \in ViewSlugs \ {Empty} :
     LET asked  == {p \in DOMAIN pc : req[p].kind = "view" /\ req[p].slug = slug}
         passed == {p \in asked : pc[p] = "incr" \/ resp[p].status /= 429}
     IN  /\ \A p, q \in passed : req[p].ip = req[q].ip => p = q
         /\ \A s \in songs :
               s.slug = slug =>
                  s.views - RaceViews0(s.id) <= Cardinality({req[p].ip : p \in asked})

\* three requests of client "1" for song "b": the first awaits its UPDATE
\* while the other two come in and are answered 429
C25_Witness ==
  \E p \in RaceProcs :
     /\ pc[p] = "incr"
     /\ \A q \in RaceProcs :
           /\ req[q].kind = "view"
           /\ req[q].slug = Txt("b") /\ req[q].ip = Txt("1")
           /\ q /= p => resp[q].status = 429


(***************************************************************************)
(* Scenario: view requests whose slug (the rest of the path after          *)
(* /api/view/) or client address (an IPv6 address) holds a colon, one per  *)
(* slot and in flight at once.                                             *)
(***************************************************************************)
NextKeys ==
  \E p \in RaceProcs :
     \/ /\ req[p].kind = "none"
        /\ \E slug \in {Txt("a"), <<"a", ":", "1">>},
              header \in {Txt("2"), <<"1", ":", "2">>} :
              handleViewIncrement(p, slug, header)
     \/ incrementViews(p)

SpecKeys == InitRace /\ [][NextKeys]_vars


(***************************************************************************)
(* C26                                                                     *)
(***************************************************************************)
\* C26: two distinct (slug, client) pairs never share an entry of the rate
\* limiter: a view request is answered 429 only if another request of the
\* same slug and the same client passed the limiter.
C26_KeysInjective ==
  \A p \in DOMAIN pc :
     req[p].kind = "view" /\ resp[p].status = 429 =>
        \E q \in DOMAIN pc \ {p} :
           /\ req[q].kind = "view"
           /\ req[q].slug = req[p].slug /\ req[q].ip = req[p].ip
           /\ pc[q] = "incr" \/ resp[q].status \notin {0, 429}


(***************************************************************************)
(* C27                                                                     *)
(***************************************************************************)
\* C27: whenever the Map holds an entry for a pair (slug, client), the
\* request that recorded it raised the views counter of a song with that
\* slug or still awaits the result of its UPDATE; so a request is
\* answered 429 only for a slug on which a view was counted or is being
\* counted.
C27_RecordedWasCounted ==
  LET Counted(slug) ==
        \E s \in songs : s.slug = slug /\ s.views > RaceViews0(s.id)
      Counting(slug, ip) ==
        \E q \in DOMAIN pc :
           pc[q] = "incr" /\ req[q].slug = slug /\ req[q].ip = ip
  IN  /\ \A slug \in WindowSlugs, header \in WindowHeaders :
            RateKey(slug, ClientIp(header)) \in DOMAIN viewRateMap
               => Counted(slug) \/ Counting(slug, ClientIp(header))
      /\ \A p \in DOMAIN pc :
            req[p].kind = "view" /\ resp[p].status = 429
               => Counted(req[p].slug) \/ Counting(req[p].slug, req[p].ip)


(***************************************************************************)
(* Scenario: list requests (page 1 or 2, one song a page) while songs are  *)
(* created and deleted, in two slots; a write can run between the two      *)
(* statements of getSongs.                                                 *)
(***************************************************************************)
NextEnvelope ==
  \E p \in Procs :
     \/ \E page \in {Empty, Txt("2")} : handleGetSongs(p, page, Txt("1"), Empty)
     \/ countQuery(p)
     \/ dataQuery(p)
     \/ handleAdminCreateSong(p, SongBody(Txt("B"), Empty, NULL, NULL, NULL))
     \/ createSong(p)
     \/ \E id \in Ids : handleAdminDeleteSong(p, id)

SpecEnvelope == Init /\ [][NextEnvelope]_vars


(***************************************************************************)
(* C28                                                                     *)
(***************************************************************************)
\* C28: every response of a list request, also when songs were created or
\* deleted between its count statement and its page statement, holds at
\* most limit songs, and holds a song only if page <= totalPages, that is
\* total > (page - 1) * limit.
C28_EnvelopeConsistent ==
  \A p \in DOMAIN pc :
     req[p].kind = "list" /\ pc[p] = "idle" /\ resp[p].status = 200 =>
        /\ Len(resp[p].songs) <= req[p].limit
        /\ Len(resp[p].songs) > 0 =>
              /\ resp[p].page <= resp[p].totalPages
              /\ resp[p].total > (resp[p].page - 1) * req[p].limit


(***************************************************************************)
(* Scenario: creates and updates of songs and artists, one request at a    *)
(* time, with titles and names of several words or of punctuation only     *)
(* and with an explicit slug that is not in slug form.                     *)
(***************************************************************************)
NextStored ==
  LET Named == {<<"A", " ", "B">>, Txt("!")}
      SongsIn   == {SongBody(t, Empty, NULL, NULL, NULL) : t \in Named}
                      \cup {SongBody(Txt("A"), <<"B", "!">>, NULL, NULL, NULL)}
      ArtistsIn == {PersonBody(n, Empty) : n \in Named}
                      \cup {PersonBody(Txt("A"), <<"B", "!">>)}
  IN
  \E p \in ListProcs :
     \/ \E body \in SongsIn : handleAdminCreateSong(p, body)
     \/ createSong(p)
     \/ \E id \in Ids, body \in SongsIn : handleAdminUpdateSong(p, id, body)
     \/ updateSong(p)
     \/ \E body \in ArtistsIn : handleAdminCreatePerson(p, "artists", body)
     \/ createPerson(p)
     \/ \E id \in Ids, body \in ArtistsIn :
           handleAdminUpdatePerson(p, "artists", id, body)
     \/ updatePerson(p)

SpecStored == InitWorker /\ [][NextStored]_vars


(***************************************************************************)
(* C29                                                                     *)
(***************************************************************************)
\* C29: every slug a table holds, explicit or derived from the title or
\* name, is non-empty and made of lowercase letters, digits and single
\* hyphens only, the first and the last character not a hyphen.
C29_SlugsWellFormed ==
  LET WellFormed(s) ==
        /\ s /= Empty
        /\ \A i \in 1..Len(s) : s[i] \in {"a", "b", "c", "x", "0", "1", "-"}
        /\ s[1] /= "-" /\ s[Len(s)] /= "-"
        /\ \A i \in 1..(Len(s) - 1) : ~(s[i] = "-" /\ s[i + 1] = "-")
  IN  \A type \in AdminTypes : \A r \in Table(type) : WellFormed(r.slug)


(***************************************************************************)
(* C30                                                                     *)
(***************************************************************************)
\* C30: with the clock never going back, every call of the rate limiter is
\* accepted or rejected exactly as a limiter that never removes an entry
\* would accept or reject it, and an entry that leaves the Map is at least
\* one window old.
C30_CleanupTransparent ==
  [][ /\ \A p \in DOMAIN pc :
            pc[p] = "idle" /\ req'[p].kind = "view" =>
               \A slug \in WindowSlugs, header \in WindowHeaders :
                  handleViewIncrement(p, slug, header) =>
                     LET limited ==
                           isRateLimited(neverSwept, slug, ClientIp(header), now)
                     IN  /\ limited => resp'[p].status = 429 /\ pc'[p] = "idle"
                         /\ ~limited => pc'[p] = "incr"
                         /\ \A s \in WindowSlugs, h \in WindowHeaders :
                               isRateLimited(viewRateMap', s, ClientIp(h), now)
                                  = isRateLimited(neverSwept', s, ClientIp(h), now)
      /\ \A k \in DOMAIN viewRateMap \ DOMAIN viewRateMap' :
            Age(k) >= RATE_LIMIT_MS
      /\ viewRateOthers' < viewRateOthers => now - OthersStamp >= RATE_LIMIT_MS
    ]_vars

\* the sweep removed the entries of ("a", "1") and ("a", "unknown"), which
\* the limiter without the sweep still holds, and the next request of
\* ("a", "1") was accepted and counted as it was by that limiter
C30_Witness ==
  /\ now = RATE_LIMIT_MS + OthersStamp + 1
  /\ RateKey(Txt("a"), Unknown) \in DOMAIN neverSwept \ DOMAIN viewRateMap
  /\ RateKey(Txt("a"), Txt("1")) \in DOMAIN viewRateMap
  /\ viewRateMap[RateKey(Txt("a"), Txt("1"))] = now
  /\ neverSwept[RateKey(Txt("a"), Txt("1"))] = now
  /\ \E s \in songs : s.slug = Txt("a") /\ s.views = RaceViews0(s.id) + 3


====
